---- MODULE Spec2Model ----
(***************************************************************************)
(* Buffering and scheduling engine of the gstreamer module:                *)
(*   - GstInput (Sample Source): video queue, end-of-stream flag, monitor  *)
(*     thread, seek;                                                       *)
(*   - GstProducer::Impl (Clip Scheduler, Playout Buffer, Field            *)
(*     Sequencer): run(), next_frame, prev_frame, seek;                    *)
(*   - gstreamer_consumer (Capture Queue, Encode Pump): send,              *)
(*     process_frames.                                                     *)
(* The decode graph is the environment: it delivers the samples of a       *)
(* medium of medialen samples in presentation order, posts end-of-stream   *)
(* on its bus after the last one, and repositions on a flushing seek.      *)
(***************************************************************************)
EXTENDS Integers, Sequences, FiniteSets, TLC

\* ------------------------------------------------------------------ bounds
MaxMedia       == 3   \* samples in the medium played under control seeks
MaxDeliver     == 3   \* samples the decode graph delivers under control seeks
MaxSeeks       == 1   \* control seeks issued over a whole behaviour
MaxClip        == 4   \* samples in the medium of a clip played without control seeks
MaxClipDeliver == 4   \* samples the decode graph delivers to such a clip
MaxLatency     == 1   \* value at which the underflow counter latency_ saturates
MaxTime        == 10  \* cap of frame_time_ while the end-hold extrapolates it
MaxSends       == 11  \* frames the production clock sends to the consumer
MaxFileSends   == 66  \* frames the production clock sends to a file consumer
MaxDtorSends   == 3   \* frames sent to a consumer before it is destroyed
MaxInputVideo  == 66  \* video samples the graph delivers to a lone Sample Source
MaxInputAudio  == 130 \* audio samples the graph delivers to a lone Sample Source
MaxStarveMedia   == 9  \* samples in a medium the decode graph never finishes
MaxStarveDeliver == 6  \* samples the decode graph delivers from that medium
MaxSeekCalls   == 2   \* calls of GstInput::seek by the owner of a Sample Source
MaxSeekMedia   == 2   \* samples in the medium such a Sample Source decodes
MaxSeekVideo   == 3   \* video samples the graph delivers between those calls
MaxSeekAudio   == 2   \* audio samples the graph delivers between those calls
MaxAborts      == 2   \* calls of GstInput::abort by the owner of a Sample Source
MaxFlushMedia   == 5  \* samples in the medium played with a full look-ahead
MaxFlushDeliver == 5  \* samples the decode graph delivers to that producer

\* ------------------------------------------------------- program constants
Int64Max        == 2147483647 \* numeric_limits<int64_t>::max() (unbounded duration)
VideoCapacity   == 64         \* video_buffer_.set_capacity(64)
AudioCapacity   == 128        \* audio_buffer_.set_capacity(128)
FlushLookahead  == 4          \* frame_flush_ && buffer_.size() < 4
LoopMinFrames   == 2          \* loop_ && frame_count_ > 2
NoSeek          == -1         \* seek_{-1}
RecoveredLatency == -1        \* latency_ = -1
RealtimeCapacity == 1         \* frame_buffer_.set_capacity(realtime_ ? 1 : 64)
FileCapacity     == 64

NoSeekIssued == -1            \* no seek was issued to the graph yet
GstMsecond   == 1000000       \* gint64 seek_pos = position * GST_MSECOND

\* format_desc_.duration and the spacing of the medium's timestamps (ms)
FormatDuration == 2
SamplePeriod   == 2

\* inputs
Capacities == {2, 4}          \* buffer_capacity_ = fps / 4
SeekTimes  == {-1, 2}         \* arguments of the control seek

Min(a, b) == IF a < b THEN a ELSE b

\* std::optional<bool>::value_or(false)
ValueOrFalse(opt) == opt = "true"

\* gint64 seek_pos = position * GST_MSECOND (positions stay far below 2^63 / 10^6)
ToNs(position) == position * GstMsecond

\* ------------------------------------------------------------------- state
VARIABLES
    \* decode graph (environment)
    medialen,        \* number of samples of the medium
    gpos,            \* index of the next sample the graph delivers
    eos_posted,      \* the graph posted end-of-stream since its last seek
    bus,             \* messages on the bus of the constructor's graph, oldest first
    ndeliv,          \* samples delivered so far
    \* GstInput
    video_buffer_,   \* tbb::concurrent_bounded_queue<GstSample*>
    eof_,
    audio_buffer_,   \* tbb::concurrent_bounded_queue<GstSample*>
    apos,            \* index of the next audio sample the graph delivers
    input_loop_,     \* GstInput::loop_, a std::optional<bool>
    abort_request_,
    mon_pc,          \* position of the monitor thread
    seek_flush,      \* flush argument of the GstInput::seek in progress
    seekable,        \* the graph accepts seeks on this medium
    issued,          \* position (ns) of the last seek issued to the graph
    flow,            \* what the last decode callback returned to the graph
    pipeline_,       \* the graph handle is present (construction succeeded)
    graph_id,        \* the graph pipeline_ refers to: 0 the constructor's, 1.. recreated
    rebus,           \* messages on the bus of a recreated graph, oldest first
    gstate,          \* state of the graph: "paused", "playing" or "null"
    naborts,         \* calls of GstInput::abort by the owner so far
    \* locks
    mutex_holder,    \* the thread that holds each lock, or "nobody"
    lock_pc,         \* position of each thread with respect to the locks
    \* construction and destruction of GstProducer::Impl
    interruption_requested, \* thread_.interruption_requested()
    pdtor_pc,        \* position of ~Impl
    \* GstProducer::Impl
    start_, duration_, seek_, loop_,
    frame_count_, frame_flush_, frame_time_, frame_duration_, frame_,
    buffer_, buffer_eof_, buffer_capacity_, latency_,
    input_duration_, field_count,
    \* scheduler thread (Impl::run)
    pc,              \* position of the scheduler thread
    frame,           \* run()'s local Frame
    seek_pos,        \* position argument of the GstInput::seek in progress
    \* control thread (Impl::seek)
    ctl_pc,
    \* clock thread: result of the last next_frame / prev_frame
    ret,             \* the call and what it returned
    tick,            \* flips at every call of the clock thread
    \* history
    nseek_started,   \* control seeks that stored their request
    \* gstreamer_consumer
    format_desc_fps, \* format_desc_.fps of the consumer (0 before initialize)
    realtime_, frame_buffer_, is_running_, aborting_, exception_,
    pump_pc,         \* position of the frame thread (Encode Pump)
    pump_frame,      \* process_frames()'s local frame
    pump_count,      \* process_frames()'s local frame_count
    encoded,         \* samples pushed into the encode graph: << frame, index >>
    eos_sent,        \* gst_app_src_end_of_stream calls
    dtor_pc,         \* position of the destructor
    send_result,     \* outcome of the last send
    nsent,           \* send calls so far
    dropped,         \* dropped-frame tags raised
    since_pop,       \* send calls since the pump's last pop
    drops_since_pop, \* dropped-frame tags raised since the pump's last pop
    first_since_pop, \* frame of the first send since the pump's last pop
    last_sent        \* frame of the last send

input_vars == << audio_buffer_, apos, input_loop_, abort_request_, mon_pc, seek_flush,
                seekable, issued, flow >>
life_vars  == << interruption_requested, pdtor_pc >>
ext_vars   == << pipeline_, graph_id, rebus, gstate, naborts, mutex_holder, lock_pc >>

vars == << medialen, gpos, eos_posted, bus, ndeliv, video_buffer_, eof_,
           input_vars, life_vars, ext_vars,
           start_, duration_, seek_, loop_, frame_count_, frame_flush_,
           frame_time_, frame_duration_, frame_, buffer_, buffer_eof_,
           buffer_capacity_, latency_, input_duration_, field_count,
           pc, frame, seek_pos, ctl_pc, ret, tick,
           nseek_started,
           format_desc_fps, realtime_, frame_buffer_, is_running_, aborting_,
           exception_, pump_pc, pump_frame, pump_count, encoded, eos_sent, dtor_pc,
           send_result, nsent, dropped, since_pop, drops_since_pop,
           first_since_pop, last_sent >>

producer_vars == << medialen, gpos, eos_posted, bus, ndeliv, video_buffer_, eof_,
                    input_vars, life_vars, ext_vars,
                    start_, duration_, seek_, loop_, frame_count_, frame_flush_,
                    frame_time_, frame_duration_, frame_, buffer_, buffer_eof_,
                    buffer_capacity_, latency_, input_duration_, field_count,
                    pc, frame, seek_pos, ctl_pc, ret, tick, nseek_started >>

consumer_vars == << format_desc_fps, realtime_, frame_buffer_, is_running_, aborting_, exception_,
                    pump_pc, pump_frame, pump_count, encoded, eos_sent, dtor_pc,
                    send_result, nsent, dropped, since_pop, drops_since_pop,
                    first_since_pop, last_sent >>

graph_vars  == << medialen, gpos, eos_posted, bus, ndeliv >>
clock_vars  == << ret, tick >>
\* --------------------------------------------------------------- references
PulledRefs == 1                \* gst_app_sink_pull_sample returns one reference

\* gst_sample_ref / gst_sample_unref on a sample with n references
Ref(n)   == n + 1
Unref(n) == n - 1

\* references the decode callback holds on a sample when it offers it to the
\* queue: the pulled one and the one it adds
CallbackRefs == Ref(PulledRefs)

\* the sample at a position of the medium, as the callback queues it
VideoSample(position, generation) ==
    [pts |-> position * SamplePeriod, gen |-> generation, refs |-> CallbackRefs]

\* ------------------------------------------------------------------ frames
\* struct Frame: a default-constructed Frame has no sample and zero times;
\* video counts the references held on the embedded sample (0: nullptr)
EmptyFrame == [valid |-> FALSE, pts |-> 0, duration |-> 0, frame_count |-> 0, gen |-> 0,
               video |-> 0]

\* core::draw_frame{}: the empty frame
NoFrame == [valid |-> FALSE, pts |-> 0, duration |-> 0, frame_count |-> 0, gen |-> 0,
            video |-> 0]

Empty     == [kind |-> "empty", f |-> NoFrame]
Still(f)  == [kind |-> "still", f |-> f]
Real(f)   == [kind |-> "frame", f |-> f]

\* sequence number of the last frame next_frame delivered, before any delivery
NoneDelivered == -1

\* tag: the diagnostics tag the call raised (graph_->set_tag); last: the
\* sequence number of the last frame next_frame delivered
NoCall == [op |-> "none", field |-> "none", res |-> Empty, tag |-> "none",
           last |-> NoneDelivered]

Fields == IF field_count = 2 THEN {"a", "b"} ELSE {"progressive"}


\* --------------------------------------------------------- pure functions
\* auto end = (duration != max) ? start + duration : INT64_MAX
ClipEnd(start, duration) ==
    IF duration # Int64Max THEN start + duration ELSE Int64Max

\* auto time = frame.pts + frame.duration
ClipTime(fr) == fr.pts + fr.duration

\* if (seek_pos >= 0)
SeekRequested(pos) == pos >= 0

\* a wait that lets the push through when the buffer is exactly full
BufferHasRoomInclusive(buf, cap) == Len(buf) <= cap

\* buffer_cond_.wait(lock, [&] { return buffer_.size() < buffer_capacity_; })
BufferHasRoom(buf, cap) == Len(buf) < cap

\* a push that does not look at the seek request
PushAlways(seek) == TRUE

\* if (seek_ == -1) buffer_.push_back(frame)
PushAllowed(seek) == seek = NoSeek

\* a look-ahead that is satisfied by a single buffered frame
MustHoldEmpty(buf, flush) == Len(buf) = 0

\* buffer_.empty() || (frame_flush_ && buffer_.size() < 4)
MustHold(buf, flush) == Len(buf) = 0 \/ (flush /\ Len(buf) < FlushLookahead)

\* an end-hold that is entered only while a flush is pending
EndHoldWhileFlushing(beof, flush) == beof /\ flush

\* buffer_eof_ && !frame_flush_
EndHold(beof, flush) == beof /\ ~flush

\* an extrapolation that ignores the clip end
HoldTimeUnbounded(t, d, end, input_duration) ==
    IF d # 0 THEN t + d ELSE input_duration

\* the extrapolation of frame_time_ while the last frame is held
HoldTime(t, d, end, input_duration) ==
    IF t < end /\ d # 0 THEN t + d
    ELSE IF t < end THEN input_duration
    ELSE t

\* a parity check that only guards field a
WrongFieldOnlyA(fc, field) == field = "a" /\ (fc % 2) # 0

\* is_field_1 = (frame_count % 2) == 0; mismatch of the head with the field
WrongField(fc, field) ==
    LET is_field_1 == (fc % 2) = 0
    IN  (field = "a" /\ ~is_field_1) \/ (field = "b" /\ is_field_1)

\* a snapshot that is taken only while no frame is held
PrevTakesHeadNoFrame(field, flush, cur) == field # "b" /\ ~cur.valid

\* a snapshot of the buffer head on either field
PrevTakesHeadAnyField(field, flush, cur) == flush \/ ~cur.valid

\* if (field != core::video_field::b) if (frame_flush_ || !frame_)
PrevTakesHead(field, flush, cur) == field # "b" /\ (flush \/ ~cur.valid)

\* an insert that overwrites the newest element of a full queue
TryPushReplaceNewest(q, x, cap) ==
    IF Len(q) < cap THEN Append(q, x) ELSE Append(SubSeq(q, 1, Len(q) - 1), x)

\* an insert that ignores the capacity
TryPushUnbounded(q, x, cap) == Append(q, x)

\* an insert that evicts the oldest element of a full queue
TryPushEvictOldest(q, x, cap) ==
    IF Len(q) < cap THEN Append(q, x) ELSE Append(Tail(q), x)

\* tbb::concurrent_bounded_queue::try_push
TryPush(q, x, cap) == IF Len(q) < cap THEN Append(q, x) ELSE q

\* a graph that keeps streaming until it is paused
StreamingUnlessPaused(state) == state # "paused"

\* the graph hands over samples and posts messages in PLAYING only; after
\* gst_element_set_state(GST_STATE_NULL) its streaming threads have stopped
Streaming(state) == state = "playing"

\* an entry point that takes the graph handle for granted
HandleAssumed(handle) == TRUE

\* if (pipeline_): the graph handle is present
HandleLive(handle) == handle

\* a seek that hands a negative position to the graph as it is
ClampNothing(position) == position

\* if (position < 0) position = 0
ClampPosition(position) == IF position < 0 THEN 0 ELSE position

\* the sample a flushing key-unit seek to position (ms) repositions the graph on
SeekTarget(position, len) == Min(position \div SamplePeriod, len)

\* a wait that is no interruption point
WaitNotInterruptible(requested, buf, cap) == FALSE

\* boost::condition_variable::wait is an interruption point: a scheduler that
\* has to wait for room leaves the wait with thread_interrupted
WaitInterrupted(requested, buf, cap) == requested /\ ~BufferHasRoom(buf, cap)

\* a push at the head of the buffer
PushFront(buf, fr) == << fr >> \o buf

\* buffer_.push_back(frame)
PushBack(buf, fr) == Append(buf, fr)

\* an underflow that leaves the counter alone
KeepLatency(latency) == latency

\* latency_ += 1, counted up to MaxLatency
CountUnderflow(latency) == Min(latency + 1, MaxLatency)

\* loop_ && frame_count_ > 2
LoopRestart(loop, count) == loop /\ count > LoopMinFrames

\* -------------------------------------------------------------------- Init
\* core::const_frame{}: the empty frame, which the pump takes as its exit signal
EmptyConstFrame == 0

\* gstreamer_consumer::gstreamer_consumer
ConsumerIdle(realtime) ==
    /\ realtime_ = realtime /\ format_desc_fps = 0
    /\ frame_buffer_ = << >>
    /\ is_running_ = FALSE /\ aborting_ = FALSE /\ exception_ = FALSE
    /\ pump_pc = "none" /\ pump_frame = EmptyConstFrame /\ pump_count = 0
    /\ encoded = << >> /\ eos_sent = 0
    /\ dtor_pc = "none"
    /\ send_result = "none"
    /\ nsent = 0 /\ dropped = 0 /\ since_pop = 0 /\ drops_since_pop = 0
    /\ first_since_pop = EmptyConstFrame /\ last_sent = EmptyConstFrame

\* ------------------------------------------------------------------- locks
\* buffer_mutex_ and state_mutex_ of GstProducer::Impl and the internal lock of
\* the Sample Source (the synchronisation inside its queue calls)
Locks   == {"buffer_mutex_", "state_mutex_", "sample_source"}
Threads == {"scheduler", "clock", "control", "graph"}

\* a function that would run update_state before its lock_guard is destroyed
HeldIntoUpdateBuffer(l) == l = "buffer_mutex_"

\* CASPAR_SCOPE_EXIT { update_state(); } is declared before the lock_guard, so
\* the guard is destroyed first: no lock is held when update_state runs
HeldIntoUpdate(l) == FALSE

\* the graph built by the constructor, whose bus the monitor thread polls
FirstGraph == 0

\* no lock is held and every thread is outside its calls
LocksIdle ==
    /\ mutex_holder = [l \in Locks |-> "nobody"]
    /\ lock_pc = [t \in Threads |-> IF t = "scheduler" THEN "top" ELSE "idle"]

\* the producer before its threads made a step
ProducerIdle(medialens, starts, durations, loops, capacities, field_counts) ==
    /\ medialen \in medialens
    /\ gpos = 0 /\ eos_posted = FALSE /\ bus = << >> /\ ndeliv = 0
    /\ video_buffer_ = << >> /\ eof_ = FALSE
    /\ start_ \in starts /\ duration_ \in durations /\ loop_ \in loops
    /\ seek_ = NoSeek
    /\ frame_count_ = 0 /\ frame_flush_ = TRUE
    /\ frame_time_ = 0 /\ frame_duration_ = 0 /\ frame_ = NoFrame
    /\ buffer_ = << >> /\ buffer_eof_ = FALSE
    /\ buffer_capacity_ \in capacities
    /\ latency_ = 0 /\ input_duration_ = 0
    /\ field_count \in field_counts
    /\ pc = "top" /\ frame = EmptyFrame /\ seek_pos = 0
    /\ ctl_pc = "idle"
    /\ ret = NoCall /\ tick = FALSE
    /\ nseek_started = 0
    /\ interruption_requested = FALSE /\ pdtor_pc = "none"

\* GstInput::GstInput built its graph: the queues are empty and the monitor
\* thread runs; the owner has started the graph (input_.start())
InputIdle(input_loops, seekables) ==
    /\ pipeline_ = TRUE /\ gstate = "playing" /\ naborts = 0
    /\ graph_id = FirstGraph /\ rebus = << >>
    /\ LocksIdle
    /\ audio_buffer_ = << >> /\ apos = 0
    /\ input_loop_ \in input_loops
    /\ abort_request_ = FALSE
    /\ mon_pc = "running"
    /\ seek_flush = TRUE
    /\ seekable \in seekables
    /\ issued = NoSeekIssued
    /\ flow = "none"

\* GstProducer::Impl::Impl constructs input_(path, graph_): no loop argument
ProducerInit(medialens, starts, durations, loops, capacities, field_counts) ==
    /\ ProducerIdle(medialens, starts, durations, loops, capacities, field_counts)
    /\ InputIdle({"nullopt"}, {TRUE})
    /\ ConsumerIdle(FALSE)

\* ------------------------------------------------------------ decode graph
\* GstInput::new_video_sample: the graph hands over its next sample
NewVideoSample(limit) ==
    /\ Streaming(gstate)
    /\ gpos < medialen /\ ndeliv < limit
    /\ video_buffer_' = TryPush(video_buffer_, VideoSample(gpos, nseek_started),
                                VideoCapacity)
    /\ flow' = "ok"
    /\ gpos' = gpos + 1 /\ ndeliv' = ndeliv + 1
    /\ UNCHANGED << consumer_vars, ext_vars, life_vars, audio_buffer_, apos, input_loop_,
                    abort_request_, mon_pc, seek_flush, seekable, issued,
                    medialen, eos_posted, bus, eof_, start_, duration_, seek_, loop_,
                    frame_count_, frame_flush_, frame_time_, frame_duration_, frame_,
                    buffer_, buffer_eof_, buffer_capacity_, latency_, input_duration_,
                    field_count, pc, frame, seek_pos, ctl_pc, ret, tick,
                    nseek_started >>

\* the graph reaches the end of the medium and posts end-of-stream on its bus
PostEos ==
    /\ Streaming(gstate) /\ graph_id = FirstGraph
    /\ gpos = medialen /\ ~eos_posted
    /\ bus' = Append(bus, "eos") /\ eos_posted' = TRUE
    /\ UNCHANGED << consumer_vars, ext_vars, input_vars, life_vars, medialen, gpos, ndeliv, video_buffer_, eof_, start_, duration_,
                    seek_, loop_, frame_count_, frame_flush_, frame_time_,
                    frame_duration_, frame_, buffer_, buffer_eof_, buffer_capacity_,
                    latency_, input_duration_, field_count, pc, frame, seek_pos,
                    ctl_pc, ret, tick, nseek_started >>

\* -------------------------------------------------- GstInput monitor thread
\* gst_bus_timed_pop + switch: on GST_MESSAGE_EOS the monitor thread seeks to 0
\* (flushing both queues) if loop_ is set, and sets eof_ otherwise
MonitorEos ==
    /\ mon_pc = "running"
    /\ bus # << >> /\ Head(bus) = "eos"
    /\ bus' = Tail(bus)
    /\ IF ValueOrFalse(input_loop_)
          THEN /\ video_buffer_' = << >> /\ audio_buffer_' = << >>
               /\ issued' = ToNs(0)
               /\ gpos' = IF seekable THEN SeekTarget(0, medialen) ELSE gpos
               /\ eos_posted' = IF seekable THEN FALSE ELSE eos_posted
               /\ eof_' = FALSE
          ELSE /\ eof_' = TRUE
               /\ UNCHANGED << video_buffer_, audio_buffer_, issued, gpos, eos_posted >>
    /\ UNCHANGED << consumer_vars, ext_vars, life_vars, apos, input_loop_, abort_request_, mon_pc,
                    seek_flush, seekable, flow, medialen, ndeliv, start_,
                    duration_, seek_, loop_, frame_count_, frame_flush_, frame_time_,
                    frame_duration_, frame_, buffer_, buffer_eof_, buffer_capacity_,
                    latency_, input_duration_, field_count, pc, frame, seek_pos,
                    ctl_pc, ret, tick, nseek_started >>

\* ------------------------------------------------ scheduler thread: run()
\* top of the loop: while (!thread_.interruption_requested()), then
\* seek_.exchange(-1) and, without a request, the end-of-clip check:
\* buffer_eof_ = input_.eof() || time >= end, then loop restart, idle or pop
RunTop ==
    /\ pc = "top"
    /\ IF interruption_requested
          THEN /\ pc' = "exited"
               /\ UNCHANGED << seek_, seek_pos, seek_flush, buffer_eof_, frame >>
          ELSE /\ seek_' = NoSeek
               /\ seek_flush' = TRUE
               /\ IF SeekRequested(seek_)
                     THEN /\ seek_pos' = seek_ /\ pc' = "in_flush"
                          /\ UNCHANGED << buffer_eof_, frame >>
                     ELSE LET beof == eof_ \/ ClipTime(frame) >= ClipEnd(start_, duration_)
                          IN  /\ buffer_eof_' = beof
                              /\ IF beof
                                    THEN IF LoopRestart(loop_, frame_count_)
                                            THEN /\ frame' = EmptyFrame /\ seek_pos' = start_
                                                 /\ pc' = "in_flush"
                                            ELSE /\ frame' = frame /\ seek_pos' = seek_pos
                                                 /\ pc' = "top"
                                    ELSE frame' = frame /\ seek_pos' = seek_pos /\ pc' = "pop"
    /\ UNCHANGED << consumer_vars, ext_vars, life_vars, audio_buffer_, apos, input_loop_,
                    abort_request_, mon_pc, seekable, issued, flow,
                    graph_vars, video_buffer_, eof_, start_, duration_, loop_,
                    frame_count_, frame_flush_, frame_time_, frame_duration_, frame_,
                    buffer_, buffer_capacity_, latency_, input_duration_, field_count,
                    ctl_pc, clock_vars, nseek_started >>

\* GstInput::seek without a graph handle returns at once; back in run():
\* frame = Frame{}; frame_flush_ = true
InputSeekAbsent ==
    /\ pc = "in_flush"
    /\ ~HandleLive(pipeline_)
    /\ frame' = EmptyFrame
    /\ frame_flush_' = TRUE
    /\ pc' = "top"
    /\ UNCHANGED << consumer_vars, ext_vars, input_vars, life_vars, graph_vars,
                    video_buffer_, eof_, start_, duration_, seek_, loop_,
                    frame_count_, frame_time_, frame_duration_, frame_, buffer_,
                    buffer_eof_, buffer_capacity_, latency_, input_duration_,
                    field_count, seek_pos, ctl_pc, clock_vars, nseek_started >>

\* GstInput::seek: the position is clamped; with flush both queues are drained
InputSeekFlush ==
    /\ pc = "in_flush"
    /\ HandleLive(pipeline_)
    /\ seek_pos' = ClampPosition(seek_pos)
    /\ IF seek_flush
          THEN video_buffer_' = << >> /\ audio_buffer_' = << >>
          ELSE UNCHANGED << video_buffer_, audio_buffer_ >>
    /\ pc' = "in_gseek"
    /\ UNCHANGED << consumer_vars, ext_vars, life_vars, apos, input_loop_, abort_request_, mon_pc,
                    seek_flush, seekable, issued, flow,
                    graph_vars, eof_, start_, duration_, seek_, loop_, frame_count_,
                    frame_flush_, frame_time_, frame_duration_, frame_, buffer_,
                    buffer_eof_, buffer_capacity_, latency_, input_duration_,
                    field_count, frame, ctl_pc, clock_vars, nseek_started >>

\* GstInput::seek, gst_element_seek_simple(FLUSH | KEY_UNIT): the graph
\* repositions if it accepts the seek and stays where it is if the seek fails
InputSeekGraph ==
    /\ pc = "in_gseek"
    /\ issued' = ToNs(seek_pos)
    /\ gpos' = IF seekable THEN SeekTarget(seek_pos, medialen) ELSE gpos
    /\ eos_posted' = IF seekable THEN FALSE ELSE eos_posted
    /\ pc' = "in_eofclr"
    /\ UNCHANGED << consumer_vars, ext_vars, life_vars, audio_buffer_, apos, input_loop_,
                    abort_request_, mon_pc, seek_flush, seekable, flow,
                    medialen, bus, ndeliv, video_buffer_, eof_, start_, duration_,
                    seek_, loop_, frame_count_, frame_flush_, frame_time_,
                    frame_duration_, frame_, buffer_, buffer_eof_, buffer_capacity_,
                    latency_, input_duration_, field_count, frame, seek_pos, ctl_pc,
                    clock_vars, nseek_started >>

\* GstInput::seek, eof_ = false; back in run(): frame = Frame{}; frame_flush_ = true
InputSeekDone ==
    /\ pc = "in_eofclr"
    /\ eof_' = FALSE
    /\ frame' = EmptyFrame
    /\ frame_flush_' = TRUE
    /\ pc' = "top"
    /\ UNCHANGED << consumer_vars, ext_vars, input_vars, life_vars, graph_vars, video_buffer_, start_, duration_, seek_, loop_,
                    frame_count_, frame_time_, frame_duration_, frame_, buffer_,
                    buffer_eof_, buffer_capacity_, latency_, input_duration_,
                    field_count, seek_pos, ctl_pc, clock_vars, nseek_started >>

\* input_.try_pop_video; on success the sample is converted to a Frame
RunPop ==
    /\ pc = "pop"
    /\ IF video_buffer_ # << >>
          THEN LET s == Head(video_buffer_)
               IN  /\ video_buffer_' = Tail(video_buffer_)
                   /\ frame' = [valid |-> TRUE, pts |-> s.pts,
                                duration |-> FormatDuration,
                                frame_count |-> frame_count_, gen |-> s.gen,
                                video |-> s.refs]
                   /\ frame_count_' = frame_count_ + 1
                   /\ pc' = "push"
          ELSE /\ UNCHANGED << video_buffer_, frame, frame_count_ >>
               /\ pc' = "top"
    /\ UNCHANGED << consumer_vars, ext_vars, input_vars, life_vars, graph_vars, eof_, start_, duration_, seek_, loop_, frame_flush_,
                    frame_time_, frame_duration_, frame_, buffer_, buffer_eof_,
                    buffer_capacity_, latency_, input_duration_, field_count, seek_pos,
                    ctl_pc, clock_vars, nseek_started >>

\* wait for room under buffer_mutex_, push unless a seek is pending, frame = Frame{}
RunPush ==
    /\ pc = "push"
    /\ BufferHasRoom(buffer_, buffer_capacity_)
    /\ IF PushAllowed(seek_)
          THEN buffer_' = PushBack(buffer_, frame)
          ELSE buffer_' = buffer_
    /\ frame' = EmptyFrame
    /\ pc' = "top"
    /\ UNCHANGED << consumer_vars, ext_vars, input_vars, life_vars, graph_vars, video_buffer_, eof_, start_, duration_, seek_, loop_,
                    frame_count_, frame_flush_, frame_time_, frame_duration_, frame_,
                    buffer_eof_, buffer_capacity_, latency_, input_duration_,
                    field_count, seek_pos, ctl_pc, clock_vars, nseek_started >>


\* --------------------------------------------------- clock thread: Impl
\* GstProducer::Impl::next_frame; latency_ only feeds the log and is counted
\* up to MaxLatency
next_frame(field) ==
    /\ tick' = ~tick
    /\ IF MustHold(buffer_, frame_flush_)
          THEN IF EndHold(buffer_eof_, frame_flush_)
                  THEN /\ frame_time_' = HoldTime(frame_time_, frame_duration_,
                                                  ClipEnd(start_, duration_),
                                                  input_duration_)
                       /\ frame_time_' <= MaxTime
                       /\ ret' = [op |-> "next", field |-> field, res |-> Still(frame_),
                                  tag |-> "none", last |-> ret.last]
                       /\ UNCHANGED << latency_, frame_, frame_duration_, frame_flush_,
                                       buffer_ >>
                  ELSE /\ latency_' = CountUnderflow(latency_)
                       /\ ret' = [op |-> "next", field |-> field, res |-> Empty,
                                  tag |-> "underflow", last |-> ret.last]
                       /\ UNCHANGED << frame_time_, frame_, frame_duration_,
                                       frame_flush_, buffer_ >>
          ELSE IF field_count = 2 /\ WrongField(buffer_[1].frame_count, field)
                  THEN /\ latency_' = CountUnderflow(latency_)
                       /\ ret' = [op |-> "next", field |-> field, res |-> Empty,
                                  tag |-> "underflow", last |-> ret.last]
                       /\ UNCHANGED << frame_time_, frame_, frame_duration_,
                                       frame_flush_, buffer_ >>
                  ELSE /\ latency_' = RecoveredLatency
                       /\ frame_' = buffer_[1]
                       /\ frame_time_' = buffer_[1].pts
                       /\ frame_duration_' = buffer_[1].duration
                       /\ frame_flush_' = FALSE
                       /\ buffer_' = Tail(buffer_)
                       /\ ret' = [op |-> "next", field |-> field, res |-> Real(buffer_[1]),
                                  tag |-> "none", last |-> buffer_[1].frame_count]
    /\ UNCHANGED << consumer_vars, ext_vars, input_vars, life_vars, graph_vars, video_buffer_, eof_, start_, duration_, seek_, loop_,
                    frame_count_, buffer_eof_, buffer_capacity_, input_duration_,
                    field_count, pc, frame, seek_pos, ctl_pc, nseek_started >>

\* GstProducer::Impl::prev_frame
prev_frame(field) ==
    /\ tick' = ~tick
    /\ IF PrevTakesHead(field, frame_flush_, frame_) /\ buffer_ # << >>
          THEN /\ frame_' = buffer_[1]
               /\ frame_time_' = buffer_[1].pts
               /\ frame_duration_' = buffer_[1].duration
               /\ frame_flush_' = FALSE
          ELSE UNCHANGED << frame_, frame_time_, frame_duration_, frame_flush_ >>
    /\ ret' = [op |-> "prev", field |-> field, res |-> Still(frame_'), tag |-> "none",
               last |-> ret.last]
    /\ UNCHANGED << consumer_vars, ext_vars, input_vars, life_vars, graph_vars, video_buffer_, eof_, start_, duration_, seek_, loop_,
                    frame_count_, buffer_, buffer_eof_, buffer_capacity_, latency_,
                    input_duration_, field_count, pc, frame, seek_pos, ctl_pc,
                    nseek_started >>

NextFrame == \E field \in Fields : next_frame(field)
PrevFrame == \E field \in Fields : prev_frame(field)

\* ------------------------------------------------- control thread: Impl
\* GstProducer::Impl::seek, seek_ = time
seek_store(time) ==
    /\ ctl_pc = "idle" /\ nseek_started < MaxSeeks
    /\ seek_' = time
    /\ nseek_started' = nseek_started + 1
    /\ ctl_pc' = "clear"
    /\ UNCHANGED << consumer_vars, ext_vars, input_vars, life_vars, graph_vars, video_buffer_, eof_, start_, duration_, loop_,
                    frame_count_, frame_flush_, frame_time_, frame_duration_, frame_,
                    buffer_, buffer_eof_, buffer_capacity_, latency_, input_duration_,
                    field_count, pc, frame, seek_pos, clock_vars >>

SeekStore == \E time \in SeekTimes : seek_store(time)

\* GstProducer::Impl::seek, buffer_.clear() and notify_all under buffer_mutex_
SeekClear ==
    /\ ctl_pc = "clear"
    /\ buffer_' = << >>
    /\ ctl_pc' = "idle"
    /\ UNCHANGED << consumer_vars, ext_vars, input_vars, life_vars, graph_vars, video_buffer_, eof_, start_, duration_, seek_, loop_,
                    frame_count_, frame_flush_, frame_time_, frame_duration_, frame_,
                    buffer_eof_, buffer_capacity_, latency_, input_duration_,
                    field_count, pc, frame, seek_pos, clock_vars, nseek_started >>

\* ------------------------------------------------------------ specification
Init == ProducerInit({MaxMedia}, {0}, {Int64Max}, {FALSE}, {2}, {2})

Next ==
    \/ NewVideoSample(MaxDeliver) \/ PostEos \/ MonitorEos
    \/ RunTop \/ InputSeekFlush \/ InputSeekGraph \/ InputSeekDone
    \/ RunPop \/ RunPush
    \/ NextFrame \/ PrevFrame
    \/ SeekStore \/ SeekClear

Spec == Init /\ [][Next]_vars

\* ---------------------------------------------------------------- history
\* control seeks that stored their request and finished clearing the buffer
SeeksDone == nseek_started - (IF ctl_pc = "clear" THEN 1 ELSE 0)

\* the step is a call of next_frame / prev_frame by the clock thread
NextFrameCall == tick' # tick /\ ret'.op = "next"
PrevFrameCall == tick' # tick /\ ret'.op = "prev"

\* the parity of a sequence number does not belong to the field
ParityMismatch(fc, field) ==
    (field = "a" /\ fc % 2 = 1) \/ (field = "b" /\ fc % 2 = 0)

\* ------------------------------------------------------------------ claims
\* C1: under every interleaving of the scheduler, next_frame, prev_frame and the
\* control seek, the playout buffer never holds more than buffer_capacity_ frames;
\* a push only happens below capacity and appends to the buffer without dropping
\* a buffered frame; at capacity the scheduler stays in its wait, keeping the
\* frame it holds, until a pop or a clear makes room.
C1_BoundedBuffer ==
    /\ [](Len(buffer_) <= buffer_capacity_)
    /\ [][ /\ (Len(buffer_') > Len(buffer_) =>
                  /\ Len(buffer_) < buffer_capacity_
                  /\ buffer_' = Append(buffer_, frame))
           /\ (pc = "push" /\ Len(buffer_) >= buffer_capacity_ =>
                  \/ (pc' = "push" /\ frame' = frame)
                  \/ Len(buffer_') < Len(buffer_)) ]_vars

\* the scheduler waits with a frame in hand in front of a full buffer
C1_Witness == pc = "push" /\ frame.valid /\ Len(buffer_) = buffer_capacity_

\* C2: once a control seek has stored its request and cleared the playout
\* buffer, next_frame returns no frame built from a sample that the decode graph
\* delivered before that seek.
C2_NoStaleFrameAfterSeek ==
    [][ (NextFrameCall /\ ret'.res.kind = "frame") => ret'.res.f.gen >= SeeksDone ]_vars

\* C3: in a two-field format a frame popped by next_frame(field) has an even
\* sequence number for field a and an odd one for field b; when the parity of
\* the buffer head does not match the field, next_frame returns the empty frame
\* and leaves the buffer and the current frame unchanged.
C3_FieldParity ==
    [][ (NextFrameCall /\ field_count = 2) =>
            /\ (ret'.res.kind = "frame" =>
                   /\ ret'.res.f = buffer_[1]
                   /\ ~ParityMismatch(ret'.res.f.frame_count, ret'.field))
            /\ (buffer_ # << >> /\ ParityMismatch(buffer_[1].frame_count, ret'.field) =>
                   /\ ret'.res = Empty
                   /\ buffer_' = buffer_ /\ frame_' = frame_) ]_vars

\* next_frame(b) delivered an odd frame while the next head is odd again
C3_Witness ==
    /\ field_count = 2 /\ ret.op = "next" /\ ret.field = "b"
    /\ ret.res.kind = "frame" /\ ret.res.f.frame_count % 2 = 1
    /\ buffer_ # << >>

\* C4: prev_frame(b) never changes the current frame, its timestamp, its
\* duration or the flush-pending flag, and returns a still of the held frame;
\* called right after prev_frame(a) it returns the same still, whatever the
\* scheduler and the control seek did in between.
C4_PrevFramePair ==
    [][ (PrevFrameCall /\ ret'.field = "b") =>
            /\ UNCHANGED << frame_, frame_time_, frame_duration_, frame_flush_ >>
            /\ ret'.res = Still(frame_)
            /\ (ret.op = "prev" /\ ret.field = "a" => ret'.res = ret.res) ]_vars

\* prev_frame(b) was called while a flush was pending and the buffer head was a
\* frame other than the held one
C4_Witness ==
    /\ ret.op = "prev" /\ ret.field = "b" /\ ret.res.f.valid
    /\ frame_flush_ /\ buffer_ # << >> /\ buffer_[1] # frame_


\* ------------------------------------------- a clip without control seeks
\* The clip plays to its end: no control seek; looping is on or off, the clip
\* duration is unbounded or one frame long.
InitClip ==
    ProducerInit(1..MaxClip, {0}, {Int64Max, FormatDuration}, BOOLEAN, Capacities, {1})

NextClip ==
    \/ NewVideoSample(MaxClipDeliver) \/ PostEos \/ MonitorEos
    \/ RunTop \/ InputSeekFlush \/ InputSeekGraph \/ InputSeekDone
    \/ RunPop \/ RunPush
    \/ NextFrame \/ PrevFrame

SpecClip == InitClip /\ [][NextClip]_vars

\* every sample of the medium was converted, pushed and popped by next_frame
AllDelivered ==
    frame_count_ = medialen /\ buffer_ = << >> /\ pc # "push" /\ ~frame.valid

\* C5 as claimed: with looping disabled and no seek, once the N frames of the
\* medium have been delivered every further next_frame returns a freeze of the
\* last frame, never the empty result.
C5_FreezeOnceDelivered ==
    [][ (NextFrameCall /\ ~loop_ /\ AllDelivered) =>
            (ret'.res.kind = "still" /\ ret'.res.f = frame_) ]_vars

\* the threads keep running: the graph posts its end-of-stream, the monitor
\* thread handles it and the scheduler thread keeps iterating
SpecClipFair ==
    /\ SpecClip
    /\ WF_vars(PostEos) /\ WF_vars(MonitorEos) /\ WF_vars(RunTop) /\ WF_vars(RunPop)

\* C5 amended: with looping disabled and no seek, once the N frames have been
\* delivered and the scheduler has flagged end-of-clip, every further next_frame
\* returns a freeze of the last frame (sequence number N - 1) and never the
\* empty result; until the flag is raised next_frame reports underflow, and the
\* flag is eventually raised and then stays raised, so next_frame does not stay
\* in underflow forever.
C5_FreezeOnceFlagged ==
    /\ [][ (NextFrameCall /\ ~loop_ /\ AllDelivered) =>
              IF buffer_eof_
                 THEN /\ ret'.res = Still(frame_)
                      /\ frame_.valid /\ frame_.frame_count = medialen - 1
                      /\ frame_' = frame_
                 ELSE ret'.res = Empty ]_vars
    /\ [][ (~loop_ /\ AllDelivered /\ buffer_eof_) => buffer_eof_' ]_vars
    /\ ((~loop_ /\ AllDelivered) ~> buffer_eof_)

\* the last frame is frozen after the whole medium was delivered
C5_Witness ==
    /\ ~loop_ /\ AllDelivered /\ buffer_eof_ /\ medialen > 1
    /\ ret.op = "next" /\ ret.res.kind = "still"
    /\ ret.res.f.frame_count = medialen - 1

\* end-hold: end-of-clip flagged, looping disabled, buffer empty, no flush pending
InEndHold == buffer_eof_ /\ ~loop_ /\ buffer_ = << >> /\ ~frame_flush_

\* C6 as claimed: in end-hold every next_frame returns the same frame and
\* increases time() by exactly one frame duration, for an unbounded and for a
\* finite clip duration.
C6_HoldAdvancesAlways ==
    [][ (NextFrameCall /\ InEndHold) =>
            /\ ret'.res = Still(frame_) /\ frame_' = frame_
            /\ frame_time_' = frame_time_ + FormatDuration ]_vars

\* C6 amended: in end-hold every next_frame returns the same frame; it increases
\* time() by exactly one frame duration while time() is below the clip end
\* start + duration (always, for the unbounded duration) and leaves time()
\* unchanged once the clip end is reached.
C6_HoldAdvancesToEnd ==
    [][ (NextFrameCall /\ InEndHold) =>
            /\ ret'.res = Still(frame_) /\ frame_' = frame_
            /\ frame_duration_ = FormatDuration
            /\ frame_time_' = IF duration_ = Int64Max \/ frame_time_ < start_ + duration_
                                 THEN frame_time_ + FormatDuration
                                 ELSE frame_time_ ]_vars

\* the held frame's time was extrapolated twice
C6_Witness ==
    /\ InEndHold /\ duration_ = Int64Max
    /\ ret.op = "next" /\ ret.res.kind = "still"
    /\ frame_time_ = frame_.pts + 2 * FormatDuration

\* C7: with loop = false and no seek, the end-of-clip flag is raised only after
\* all N samples of the medium have been converted to frames.
C7_EofAfterLastFrame ==
    (~loop_ /\ buffer_eof_) => frame_count_ = medialen

\* the end of the frame that precedes fr in the medium
PredecessorEnd(fr) == fr.pts - SamplePeriod + FormatDuration

\* C8: with a finite clip duration and looping disabled, no frame is pushed once
\* the frame produced before it ends at or after start + duration.
C8_NoPushPastClipEnd ==
    (~loop_ /\ duration_ # Int64Max) =>
        \A i \in 1..Len(buffer_) :
            buffer_[i].frame_count > 0 =>
                PredecessorEnd(buffer_[i]) < start_ + duration_

\* C9: with looping enabled and a finite duration D, no frame returned by
\* next_frame has a timestamp beyond start + D plus one frame duration.
C9_LoopWrapsAtClipEnd ==
    (loop_ /\ duration_ # Int64Max /\ ret.op = "next" /\ ret.res.kind = "frame") =>
        ret.res.f.pts <= start_ + duration_ + FormatDuration


\* ------------------------------------------------------ gstreamer_consumer
\* frame_buffer_.set_capacity(realtime_ ? 1 : 64)
Capacity(realtime) == IF realtime THEN RealtimeCapacity ELSE FileCapacity

\* gstreamer_consumer::initialize: format_desc_ = format_desc; the frame thread
\* is started
Initialize(rates) ==
    /\ pump_pc = "none" /\ dtor_pc = "none"
    /\ pump_pc' = "start"
    /\ \E fps \in rates : format_desc_fps' = fps
    /\ UNCHANGED << producer_vars, realtime_, frame_buffer_, is_running_, aborting_,
                    exception_, pump_frame, pump_count, encoded, eos_sent, dtor_pc,
                    send_result, nsent, dropped, since_pop, drops_since_pop,
                    first_since_pop, last_sent >>

\* the consumer of a 50 fps channel is initialized
initialize == Initialize({50})

\* frame thread: create_pipeline and set_state(PLAYING); is_running_ = true
PumpStart ==
    /\ pump_pc = "start"
    /\ \E outcome \in {"ok", "fails", "throws"} :
          /\ is_running_' = (outcome = "ok")
          /\ exception_' = (outcome = "throws")
          /\ pump_pc' = IF outcome # "ok" THEN "exited"
                        ELSE IF aborting_ THEN "eos" ELSE "pop"
    /\ UNCHANGED << producer_vars, format_desc_fps, realtime_, frame_buffer_, aborting_, pump_frame,
                    pump_count, encoded, eos_sent, dtor_pc, send_result, nsent,
                    dropped, since_pop, drops_since_pop, first_since_pop, last_sent >>

\* process_frames: frame_buffer_.pop(frame); an empty frame means exit
PumpPop ==
    /\ pump_pc = "pop"
    /\ frame_buffer_ # << >>
    /\ frame_buffer_' = Tail(frame_buffer_)
    /\ pump_frame' = Head(frame_buffer_)
    /\ pump_pc' = IF Head(frame_buffer_) = EmptyConstFrame THEN "eos" ELSE "push"
    /\ since_pop' = 0 /\ drops_since_pop' = 0 /\ first_since_pop' = EmptyConstFrame
    /\ UNCHANGED << producer_vars, format_desc_fps, realtime_, is_running_, aborting_, exception_,
                    pump_count, encoded, eos_sent, dtor_pc, send_result, nsent,
                    dropped, last_sent >>

\* GST_SECOND, in nanoseconds
GstSecond == 1000000000

\* GST_BUFFER_PTS(buffer) = frame_count / fps * GST_SECOND, truncated to an
\* integer: floor(frame_count * GST_SECOND / fps), computed within 32 bits
BufferPts(frame_count, fps) ==
    frame_count * (GstSecond \div fps) + (frame_count * (GstSecond % fps)) \div fps

\* a pump that stamps every frame with the same counter value
KeepCount(frame_count) == frame_count

\* frame_count++
NextCount(frame_count) == frame_count + 1

\* a pump that leaves the loop without signalling the end of the stream
NoEndOfStream(n) == n

\* gst_app_src_end_of_stream(appsrc_): one more end-of-stream signal
EndOfStream(n) == n + 1

\* process_frames: make_gst_sample, timestamp from frame_count, push to appsrc
PumpPush ==
    /\ pump_pc = "push"
    /\ encoded' = Append(encoded, << pump_frame, pump_count,
                                    BufferPts(pump_count, format_desc_fps) >>)
    /\ pump_count' = NextCount(pump_count)
    /\ pump_pc' = IF aborting_ THEN "eos" ELSE "pop"
    /\ UNCHANGED << producer_vars, format_desc_fps, realtime_, frame_buffer_, is_running_, aborting_,
                    exception_, pump_frame, eos_sent, dtor_pc, send_result, nsent,
                    dropped, since_pop, drops_since_pop, first_since_pop, last_sent >>

\* process_frames: gst_app_src_end_of_stream; is_running_ = false
PumpEos ==
    /\ pump_pc = "eos"
    /\ eos_sent' = EndOfStream(eos_sent)
    /\ is_running_' = FALSE
    /\ pump_pc' = "exited"
    /\ UNCHANGED << producer_vars, format_desc_fps, realtime_, frame_buffer_, aborting_, exception_,
                    pump_frame, pump_count, encoded, dtor_pc, send_result, nsent,
                    dropped, since_pop, drops_since_pop, first_since_pop, last_sent >>

\* gstreamer_consumer::send
send(fr) ==
    /\ pump_pc # "none" /\ dtor_pc = "none"
    /\ nsent' = nsent + 1
    /\ IF exception_
          THEN /\ send_result' = "throws"
               /\ UNCHANGED << frame_buffer_, dropped, since_pop, drops_since_pop,
                               first_since_pop, last_sent >>
          ELSE LET full == TryPush(frame_buffer_, fr, Capacity(realtime_)) = frame_buffer_
               IN  /\ frame_buffer_' = TryPush(frame_buffer_, fr, Capacity(realtime_))
                   /\ dropped' = IF full THEN dropped + 1 ELSE dropped
                   /\ drops_since_pop' = IF full THEN drops_since_pop + 1
                                                 ELSE drops_since_pop
                   /\ since_pop' = since_pop + 1
                   /\ first_since_pop' = IF since_pop = 0 THEN fr ELSE first_since_pop
                   /\ last_sent' = fr
                   /\ send_result' = IF is_running_ THEN "running" ELSE "not_running"
    /\ UNCHANGED << producer_vars, format_desc_fps, realtime_, is_running_, aborting_, exception_,
                    pump_pc, pump_frame, pump_count, encoded, eos_sent, dtor_pc >>

\* the production clock sends a new frame or an empty one
Send ==
    /\ nsent < MaxSends
    /\ \E empty \in BOOLEAN : send(IF empty THEN EmptyConstFrame ELSE nsent + 1)

\* the production clock sends a few frames, new or empty, before the destruction
SendFew ==
    /\ nsent < MaxDtorSends
    /\ \E empty \in BOOLEAN : send(IF empty THEN EmptyConstFrame ELSE nsent + 1)

\* the production clock sends a new frame
SendFrame ==
    /\ nsent < MaxFileSends
    /\ send(nsent + 1)

\* ~gstreamer_consumer: aborting_ = true
Destroy ==
    /\ dtor_pc = "none"
    /\ aborting_' = TRUE
    /\ dtor_pc' = IF pump_pc # "none" THEN "push" ELSE "done"
    /\ UNCHANGED << producer_vars, format_desc_fps, realtime_, frame_buffer_, is_running_, exception_,
                    pump_pc, pump_frame, pump_count, encoded, eos_sent, send_result,
                    nsent, dropped, since_pop, drops_since_pop, first_since_pop,
                    last_sent >>

\* ~gstreamer_consumer: frame_buffer_.push(core::const_frame{}) blocks while full
DestroyPush ==
    /\ dtor_pc = "push"
    /\ Len(frame_buffer_) < Capacity(realtime_)
    /\ frame_buffer_' = Append(frame_buffer_, EmptyConstFrame)
    /\ dtor_pc' = "join"
    /\ UNCHANGED << producer_vars, format_desc_fps, realtime_, is_running_, aborting_, exception_,
                    pump_pc, pump_frame, pump_count, encoded, eos_sent, send_result,
                    nsent, dropped, since_pop, drops_since_pop, first_since_pop,
                    last_sent >>

\* ~gstreamer_consumer: frame_thread_.join()
DestroyJoin ==
    /\ dtor_pc = "join"
    /\ pump_pc = "exited"
    /\ dtor_pc' = "done"
    /\ UNCHANGED << producer_vars, format_desc_fps, realtime_, frame_buffer_, is_running_, aborting_,
                    exception_, pump_pc, pump_frame, pump_count, encoded, eos_sent,
                    send_result, nsent, dropped, since_pop, drops_since_pop,
                    first_since_pop, last_sent >>

InitConsumer ==
    /\ ProducerIdle({1}, {0}, {Int64Max}, {FALSE}, {2}, {1})
    /\ InputIdle({"nullopt"}, {TRUE})
    /\ \E realtime \in BOOLEAN : ConsumerIdle(realtime)

NextConsumer ==
    \/ initialize \/ PumpStart \/ PumpPop \/ PumpPush \/ PumpEos
    \/ Send
    \/ Destroy \/ DestroyPush \/ DestroyJoin

SpecConsumer == InitConsumer /\ [][NextConsumer]_vars

InitFile ==
    /\ ProducerIdle({1}, {0}, {Int64Max}, {FALSE}, {2}, {1})
    /\ InputIdle({"nullopt"}, {TRUE})
    /\ ConsumerIdle(FALSE)

NextFile ==
    \/ initialize \/ PumpStart \/ PumpPop \/ PumpPush
    \/ SendFrame

SpecFile == InitFile /\ [][NextFile]_vars

\* the step is a call of send
SendCall == nsent' = nsent + 1

\* C11: a non-realtime consumer never drops a frame: every non-empty frame
\* passed to send while the consumer is running is appended to the Capture
\* Queue (from where the pump pops it) and no dropped-frame tag is raised.
C11_FileNeverDrops ==
    [][ (SendCall /\ ~realtime_ /\ is_running_ /\ last_sent' # EmptyConstFrame) =>
            /\ frame_buffer_' = Append(frame_buffer_, last_sent')
            /\ dropped' = dropped ]_vars

NewAudioSample(limit) ==
    /\ Streaming(gstate)
    /\ apos < limit
    /\ audio_buffer_' = TryPush(audio_buffer_, apos, AudioCapacity)
    /\ flow' = "ok"
    /\ apos' = apos + 1
    /\ UNCHANGED << consumer_vars, ext_vars, life_vars, input_loop_, abort_request_, mon_pc,
                    seek_flush, seekable, issued, graph_vars, video_buffer_, eof_,
                    start_, duration_, seek_, loop_, frame_count_, frame_flush_,
                    frame_time_, frame_duration_, frame_, buffer_, buffer_eof_,
                    buffer_capacity_, latency_, input_duration_, field_count, pc,
                    frame, seek_pos, ctl_pc, clock_vars, nseek_started >>

\* GstInput::try_pop_video called by the owner of the Sample Source
InputTryPop ==
    /\ pc = "top"
    /\ video_buffer_ # << >>
    /\ video_buffer_' = Tail(video_buffer_)
    /\ UNCHANGED << consumer_vars, ext_vars, life_vars, input_vars, graph_vars, eof_,
                    start_, duration_, seek_, loop_, frame_count_, frame_flush_,
                    frame_time_, frame_duration_, frame_, buffer_, buffer_eof_,
                    buffer_capacity_, latency_, input_duration_, field_count, pc,
                    frame, seek_pos, ctl_pc, clock_vars, nseek_started >>

\* the graph delivers video and audio at its own rate; the owner pops video
InitInput ==
    /\ ProducerIdle({MaxInputVideo}, {0}, {Int64Max}, {FALSE}, {2}, {1})
    /\ InputIdle({"nullopt"}, {TRUE})
    /\ ConsumerIdle(FALSE)

NextInput ==
    \/ NewVideoSample(MaxInputVideo) \/ NewAudioSample(MaxInputAudio)
    \/ InputTryPop

SpecInput == InitInput /\ [][NextInput]_vars

\* the step is a call of new_video_sample / new_audio_sample by the graph
VideoCallback == ndeliv' = ndeliv + 1
AudioCallback == apos' = apos + 1

\* C13: the decode callbacks never wait for room: on a full queue the arriving
\* sample is discarded and the queued samples are unchanged, otherwise the
\* sample is appended; in both cases the callback reports success to the
\* graph; the video queue never holds more than 64 and the audio queue never
\* more than 128 samples.
C13_CallbacksDropNewest ==
    /\ [](Len(video_buffer_) <= 64 /\ Len(audio_buffer_) <= 128)
    /\ [][ VideoCallback =>
              /\ flow' = "ok"
              /\ video_buffer_' =
                     IF Len(video_buffer_) = 64 THEN video_buffer_
                     ELSE Append(video_buffer_,
                                 VideoSample(gpos, nseek_started)) ]_vars
    /\ [][ AudioCallback =>
              /\ flow' = "ok"
              /\ audio_buffer_' =
                     IF Len(audio_buffer_) = 128 THEN audio_buffer_
                     ELSE Append(audio_buffer_, apos) ]_vars

\* both queues are full and each callback discarded a sample
C13_Witness ==
    /\ Len(video_buffer_) = VideoCapacity /\ ndeliv = VideoCapacity + 1
    /\ video_buffer_[1].pts = 0
    /\ Len(audio_buffer_) = AudioCapacity /\ apos = AudioCapacity + 1
    /\ flow = "ok"

\* ------------------------------------------------- destruction of a consumer
\* the consumer is initialized, receives a few frames and is destroyed; the
\* pump thread and the destructor keep running
NextDestroy ==
    \/ initialize \/ PumpStart \/ PumpPop \/ PumpPush \/ PumpEos
    \/ SendFew
    \/ Destroy \/ DestroyPush \/ DestroyJoin

SpecDestroy ==
    /\ InitConsumer /\ [][NextDestroy]_vars
    /\ WF_vars(PumpStart) /\ WF_vars(PumpPop) /\ WF_vars(PumpPush) /\ WF_vars(PumpEos)
    /\ WF_vars(DestroyPush) /\ WF_vars(DestroyJoin)

\* C14: destroying an initialized consumer always terminates: once the
\* destructor has started, its sentinel push and its join of the pump thread
\* complete, whatever the state of the queue and of the pump.
C14_DestructorTerminates ==
    (dtor_pc # "none") ~> (dtor_pc = "done")

\* -------------------------------------------------- destruction of a producer
\* buffer_cond_.wait throws boost::thread_interrupted, which ends the thread
RunInterrupted ==
    /\ pc = "push"
    /\ WaitInterrupted(interruption_requested, buffer_, buffer_capacity_)
    /\ pc' = "exited"
    /\ UNCHANGED << consumer_vars, ext_vars, input_vars, life_vars, graph_vars, video_buffer_,
                    eof_, start_, duration_, seek_, loop_, frame_count_, frame_flush_,
                    frame_time_, frame_duration_, frame_, buffer_, buffer_eof_,
                    buffer_capacity_, latency_, input_duration_, field_count, frame,
                    seek_pos, ctl_pc, clock_vars, nseek_started >>

\* ~Impl: thread_.interrupt()
ProducerDestroy ==
    /\ pdtor_pc = "none"
    /\ interruption_requested' = TRUE
    /\ pdtor_pc' = "join"
    /\ UNCHANGED << consumer_vars, ext_vars, input_vars, graph_vars, video_buffer_, eof_,
                    start_, duration_, seek_, loop_, frame_count_, frame_flush_,
                    frame_time_, frame_duration_, frame_, buffer_, buffer_eof_,
                    buffer_capacity_, latency_, input_duration_, field_count, pc,
                    frame, seek_pos, ctl_pc, clock_vars, nseek_started >>

\* ~Impl: thread_.join()
ProducerJoin ==
    /\ pdtor_pc = "join"
    /\ pc = "exited"
    /\ pdtor_pc' = "abort"
    /\ UNCHANGED << consumer_vars, ext_vars, input_vars, interruption_requested, graph_vars,
                    video_buffer_, eof_, start_, duration_, seek_, loop_,
                    frame_count_, frame_flush_, frame_time_, frame_duration_, frame_,
                    buffer_, buffer_eof_, buffer_capacity_, latency_, input_duration_,
                    field_count, pc, frame, seek_pos, ctl_pc, clock_vars,
                    nseek_started >>

\* ~Impl: input_.abort(): abort_request_ = true, graph to NULL, queues drained
InputAbort ==
    /\ pdtor_pc = "abort"
    /\ abort_request_' = TRUE
    /\ gstate' = IF pipeline_ THEN "null" ELSE gstate
    /\ video_buffer_' = << >> /\ audio_buffer_' = << >>
    /\ pdtor_pc' = "input_join"
    /\ UNCHANGED << consumer_vars, pipeline_, graph_id, rebus, naborts, mutex_holder, lock_pc, apos, input_loop_, mon_pc, seek_flush, seekable,
                    issued, flow, interruption_requested, graph_vars, eof_,
                    start_, duration_, seek_, loop_, frame_count_, frame_flush_,
                    frame_time_, frame_duration_, frame_, buffer_, buffer_eof_,
                    buffer_capacity_, latency_, input_duration_, field_count, pc,
                    frame, seek_pos, ctl_pc, clock_vars, nseek_started >>

\* monitor thread: while (!abort_request_) around a 100 ms timed bus pop
MonitorExit ==
    /\ mon_pc = "running"
    /\ abort_request_
    /\ mon_pc' = "exited"
    /\ UNCHANGED << consumer_vars, ext_vars, life_vars, audio_buffer_, apos, input_loop_,
                    abort_request_, seek_flush, seekable, issued, flow, graph_vars,
                    video_buffer_, eof_, start_, duration_, seek_, loop_,
                    frame_count_, frame_flush_, frame_time_, frame_duration_, frame_,
                    buffer_, buffer_eof_, buffer_capacity_, latency_, input_duration_,
                    field_count, pc, frame, seek_pos, ctl_pc, clock_vars,
                    nseek_started >>

\* ~GstInput: thread_.join(), then the graph is stopped, the queues are drained
\* and the graph handle is released with the members
InputJoin ==
    /\ pdtor_pc = "input_join"
    /\ mon_pc = "exited"
    /\ video_buffer_' = << >> /\ audio_buffer_' = << >>
    /\ pdtor_pc' = "done"
    /\ UNCHANGED << consumer_vars, ext_vars, apos, input_loop_, abort_request_, mon_pc,
                    seek_flush, seekable, issued, flow, interruption_requested,
                    graph_vars, eof_, start_, duration_, seek_, loop_, frame_count_,
                    frame_flush_, frame_time_, frame_duration_, frame_, buffer_,
                    buffer_eof_, buffer_capacity_, latency_, input_duration_,
                    field_count, pc, frame, seek_pos, ctl_pc, clock_vars,
                    nseek_started >>

\* a clip is played and the producer is destroyed at any moment; every thread
\* keeps running
NextShutdown ==
    \/ NewVideoSample(MaxClipDeliver) \/ PostEos \/ MonitorEos \/ MonitorExit
    \/ RunTop \/ InputSeekFlush \/ InputSeekGraph \/ InputSeekDone
    \/ RunPop \/ RunPush \/ RunInterrupted
    \/ NextFrame \/ PrevFrame
    \/ ProducerDestroy \/ ProducerJoin \/ InputAbort \/ InputJoin

SpecShutdown ==
    /\ InitClip /\ [][NextShutdown]_vars
    /\ WF_vars(RunTop) /\ WF_vars(RunPop) /\ WF_vars(RunPush) /\ WF_vars(RunInterrupted)
    /\ WF_vars(InputSeekFlush) /\ WF_vars(InputSeekGraph) /\ WF_vars(InputSeekDone)
    /\ WF_vars(MonitorExit)
    /\ WF_vars(ProducerJoin) /\ WF_vars(InputAbort) /\ WF_vars(InputJoin)

\* C15: destroying a producer always terminates, from every scheduler state;
\* the scheduler thread has ended before the Sample Source is aborted and the
\* monitor thread has ended before the destruction of the Sample Source completes.
C15_ProducerShutdown ==
    /\ (pdtor_pc # "none") ~> (pdtor_pc = "done")
    /\ [](abort_request_ => pc = "exited")
    /\ [](pdtor_pc \in {"input_join", "done"} => pc = "exited")
    /\ [](pdtor_pc = "done" => mon_pc = "exited")

\* the producer was destroyed while its scheduler waited, frame in hand, for
\* room in a full playout buffer
C15_Witness ==
    /\ pdtor_pc = "done" /\ pc = "exited" /\ mon_pc = "exited"
    /\ frame.valid /\ Len(buffer_) = buffer_capacity_

\* ------------------------------------------------ control seeks, threads fair
\* the scheduler thread keeps iterating and a control seek, once it stored its
\* request, goes on to clear the playout buffer
SpecSeekFair ==
    /\ Spec
    /\ WF_vars(RunTop) /\ WF_vars(RunPop) /\ WF_vars(RunPush)
    /\ WF_vars(InputSeekFlush) /\ WF_vars(InputSeekGraph) /\ WF_vars(InputSeekDone)
    /\ WF_vars(SeekClear)

\* the scheduler takes a request out of seek_ and forwards it to GstInput::seek
ForwardStep == pc = "top" /\ pc' = "in_flush"

\* the scheduler has not forwarded any request yet: seek_pos, the argument of
\* GstInput::seek, still has its initial value, which no control seek asks for
NothingForwarded == seek_pos = 0 /\ 0 \notin SeekTimes

\* C16: a pending seek request is consumed exactly once: the value t that a
\* control seek stored and no later control seek overwrites is eventually
\* forwarded by the scheduler to GstInput::seek; when the scheduler forwards a
\* request it forwards the stored value and puts seek_ back to the no-seek
\* sentinel, so no value is forwarded twice; and no frame is pushed between the
\* forwarding and the setting of the flush-pending flag.
C16_SeekForwardedOnce ==
    /\ \A t \in SeekTimes :
          (ctl_pc = "clear" /\ seek_ = t /\ NothingForwarded /\ nseek_started = MaxSeeks)
              ~> (pc = "in_flush" /\ seek_pos = t)
    /\ [][ ForwardStep => (seek_pos' = seek_ /\ seek_' = NoSeek) ]_vars
    /\ [][ (pc \in {"in_flush", "in_gseek", "in_eofclr"}) =>
              (Len(buffer_') <= Len(buffer_)) ]_vars

\* a seek request is pending: seek_ differs from the no-seek sentinel
SeekPending == seek_ # NoSeek

\* C17: no frame is pushed into the playout buffer while a seek request is
\* pending; a scheduler that holds a converted frame, or waits with it for room,
\* when the control seek is requested is not left waiting once the seek has
\* cleared the buffer (the buffer has room), and its next step drops the frame
\* instead of enqueuing it.
C17_NoPushWhileSeekPending ==
    /\ [][ Len(buffer_') > Len(buffer_) => ~SeekPending ]_vars
    /\ []((pc = "push" /\ SeekPending /\ ctl_pc = "idle") =>
              Len(buffer_) < buffer_capacity_)
    /\ [][ (pc = "push" /\ pc' = "top" /\ SeekPending) =>
              (Len(buffer_') <= Len(buffer_) /\ frame' = EmptyFrame) ]_vars

\* after a seek the scheduler dropped, without enqueuing it, a frame it had
\* waited with in front of a full buffer: the clock never took a frame, the
\* request is still pending, the buffer is still empty and one more frame was
\* converted than the buffer could hold
C17_Witness ==
    /\ SeekPending /\ ctl_pc = "idle" /\ pc = "top" /\ ~frame.valid
    /\ buffer_ = << >> /\ frame_count_ = buffer_capacity_ + 1
    /\ frame_flush_ /\ ~frame_.valid

\* ---------------------------------------------------------------- starvation
\* an interlaced medium the graph does not finish: no end of stream is posted,
\* the clock only calls next_frame, and every thread keeps running
InitStarve ==
    ProducerInit({MaxStarveMedia}, {0}, {Int64Max}, {FALSE}, Capacities, {2})

\* the production clock calls next_frame for one field of the format
ClockField(field) == field \in Fields /\ next_frame(field)

NextStarve ==
    \/ NewVideoSample(MaxStarveDeliver)
    \/ RunTop \/ InputSeekFlush \/ InputSeekGraph \/ InputSeekDone
    \/ RunPop \/ RunPush
    \/ ClockField("a") \/ ClockField("b")
    \/ SeekStore \/ SeekClear

SpecStarve ==
    /\ InitStarve /\ [][NextStarve]_vars
    /\ WF_vars(NewVideoSample(MaxStarveDeliver))
    /\ WF_vars(RunTop) /\ WF_vars(RunPop) /\ WF_vars(RunPush)
    /\ WF_vars(InputSeekFlush) /\ WF_vars(InputSeekGraph) /\ WF_vars(InputSeekDone)
    /\ WF_vars(SeekClear)
    /\ WF_vars(ClockField("a")) /\ WF_vars(ClockField("b"))

\* the last call of the clock was next_frame and it returned a decoded frame
RealFrame == ret.op = "next" /\ ret.res.kind = "frame"

\* frames in the playout buffer, in the scheduler's hand, in the video queue
\* and still to be delivered by the graph
Supply ==
    Len(buffer_) + (IF frame.valid THEN 1 ELSE 0) + Len(video_buffer_)
        + (MaxStarveDeliver - ndeliv)

\* the graph stopped delivering before the start-up look-ahead could fill
SupplyShort == Supply < FlushLookahead

\* C18: for every playout buffer capacity >= 1 and without any
\* prev_frame call, while the graph keeps delivering samples a clock that is
\* not being served a decoded frame is eventually served one
C18_StarvationHealsAnyCapacity ==
    (~RealFrame) ~> (RealFrame \/ SupplyShort)

\* ---------------------------------------------------------------- monitor
\* the step is the monitor thread taking an end-of-stream message off the bus
MonitorEosStep == bus # << >> /\ Head(bus) = "eos" /\ bus' = Tail(bus)

\* C19: when the monitor thread handles an end-of-stream event of a producer
\* that loops, it seeks the graph to 0 and leaves the end-of-stream flag
\* clear; of a producer that does not loop, it sets the flag and does not seek
C19_MonitorEosFollowsLoop ==
    [][ MonitorEosStep =>
          (IF loop_ THEN issued' = ToNs(0) /\ ~eof_'
                    ELSE eof_' /\ issued' = issued) ]_vars

\* ------------------------------------------------------------ GstInput::seek
SeekPositions == {-2, 3}       \* position arguments of GstInput::seek, in ms

\* the owner of the Sample Source calls seek(position, flush)
InputSeekCall(position, flush) ==
    /\ pc = "top" /\ nseek_started < MaxSeekCalls
    /\ seek_pos' = position /\ seek_flush' = flush
    /\ nseek_started' = nseek_started + 1
    /\ pc' = "in_flush"
    /\ UNCHANGED << consumer_vars, ext_vars, life_vars, audio_buffer_, apos, input_loop_,
                    abort_request_, mon_pc, seekable, issued, flow, graph_vars,
                    video_buffer_, eof_, start_, duration_, seek_, loop_,
                    frame_count_, frame_flush_, frame_time_, frame_duration_,
                    frame_, buffer_, buffer_eof_, buffer_capacity_, latency_,
                    input_duration_, field_count, frame, ctl_pc, clock_vars >>

\* a Sample Source constructed with or without a loop argument, on a graph
\* that accepts seeks or refuses them
InitSeek ==
    /\ ProducerIdle({MaxSeekMedia}, {0}, {Int64Max}, {FALSE}, {2}, {1})
    /\ InputIdle({"nullopt", "false", "true"}, BOOLEAN)
    /\ ConsumerIdle(FALSE)

NextSeek ==
    \/ NewVideoSample(MaxSeekVideo) \/ NewAudioSample(MaxSeekAudio)
    \/ PostEos \/ MonitorEos
    \/ InputTryPop
    \/ (\E position \in SeekPositions, flush \in BOOLEAN :
            InputSeekCall(position, flush))
    \/ InputSeekFlush \/ InputSeekGraph \/ InputSeekDone

SpecSeek == InitSeek /\ [][NextSeek]_vars

\* C20: GstInput::seek(position, flush) takes max(position, 0); with flush both
\* sample queues are emptied before the graph seek; the graph seek is issued
\* at that position in nanoseconds; and when the call returns the
\* end-of-stream flag is false, whether or not the graph accepted the seek
C20_SeekContract ==
    [][ /\ (pc = "in_flush" /\ pc' = "in_gseek")
            => /\ seek_pos' = (IF seek_pos > 0 THEN seek_pos ELSE 0)
               /\ seek_flush => (video_buffer_' = << >> /\ audio_buffer_' = << >>)
               /\ issued' = issued
        /\ (pc = "in_gseek" /\ pc' = "in_eofclr")
            => issued' = seek_pos * 1000000
        /\ (pc = "in_eofclr" /\ pc' = "top")
            => ~eof_' ]_vars

\* a flushing seek to a negative position returned on a graph that refused it:
\* the end of stream the monitor had flagged is cleared, position 0 was issued
C20_Witness ==
    /\ pc = "top" /\ nseek_started = 1 /\ seek_flush /\ ~seekable
    /\ issued = 0 /\ ~eof_
    /\ eos_posted /\ bus = << >> /\ input_loop_ = "false"

\* ------------------------------------------------------- absent graph handle
\* GstInput::start: gst_element_set_state(PLAYING) if the handle is present
InputStart ==
    /\ gstate' = IF HandleLive(pipeline_) THEN "playing" ELSE gstate
    /\ UNCHANGED << consumer_vars, pipeline_, graph_id, rebus, naborts, mutex_holder, lock_pc, input_vars, life_vars, graph_vars,
                    video_buffer_, eof_, start_, duration_, seek_, loop_,
                    frame_count_, frame_flush_, frame_time_, frame_duration_,
                    frame_, buffer_, buffer_eof_, buffer_capacity_, latency_,
                    input_duration_, field_count, pc, frame, seek_pos, ctl_pc,
                    clock_vars, nseek_started >>

\* GstInput::stop: gst_element_set_state(PAUSED) if the handle is present
InputStop ==
    /\ gstate' = IF HandleLive(pipeline_) THEN "paused" ELSE gstate
    /\ UNCHANGED << consumer_vars, pipeline_, graph_id, rebus, naborts, mutex_holder, lock_pc, input_vars, life_vars, graph_vars,
                    video_buffer_, eof_, start_, duration_, seek_, loop_,
                    frame_count_, frame_flush_, frame_time_, frame_duration_,
                    frame_, buffer_, buffer_eof_, buffer_capacity_, latency_,
                    input_duration_, field_count, pc, frame, seek_pos, ctl_pc,
                    clock_vars, nseek_started >>

\* GstInput::GstInput when initialize_pipeline failed: no graph, no monitor
\* thread, empty queues
InputFailed ==
    /\ pipeline_ = FALSE /\ gstate = "null" /\ naborts = 0
    /\ graph_id = FirstGraph /\ rebus = << >>
    /\ LocksIdle
    /\ audio_buffer_ = << >> /\ apos = 0
    /\ input_loop_ = "nullopt"
    /\ abort_request_ = FALSE
    /\ mon_pc = "none"
    /\ seek_flush = TRUE
    /\ seekable = FALSE
    /\ issued = NoSeekIssued
    /\ flow = "none"

\* a producer constructed over a medium whose graph could be built or not
InitNoGraph ==
    /\ ProducerIdle({MaxMedia}, {0}, {Int64Max, 0}, {FALSE}, {2}, {1})
    /\ (InputFailed \/ InputIdle({"nullopt"}, {TRUE}))
    /\ ConsumerIdle(FALSE)

NextNoGraph ==
    \/ NewVideoSample(MaxDeliver) \/ PostEos
    \/ InputStart \/ InputStop
    \/ RunTop \/ InputSeekAbsent \/ InputSeekFlush \/ InputSeekGraph \/ InputSeekDone
    \/ RunPop \/ RunPush
    \/ NextFrame \/ PrevFrame
    \/ SeekStore \/ SeekClear

SpecNoGraph == InitNoGraph /\ [][NextNoGraph]_vars

\* a readiness test that looks at the playout buffer only
IsReadyBufferOnly == buffer_ # << >>

\* GstProducer::Impl::is_ready
is_ready == buffer_ # << >> \/ frame_.valid

\* C21: without a graph handle GstInput::seek, start and stop change nothing:
\* a seek returns from its first step with the queues, the end-of-stream flag,
\* the graph and the issued position as they were, the graph state never
\* changes; the producer never pushes a frame, is_ready stays false and every
\* next_frame returns the empty frame
C21_AbsentHandleIsNoOp ==
    /\ [][ (~pipeline_ /\ pc = "in_flush" /\ pc' # pc)
             => (/\ pc' = "top"
                 /\ UNCHANGED << video_buffer_, audio_buffer_, eof_, issued,
                                 gstate, gpos >>) ]_vars
    /\ [](~pipeline_ => (/\ gstate = "null" /\ ~eof_
                         /\ video_buffer_ = << >> /\ audio_buffer_ = << >>))
    /\ [](~pipeline_ => (buffer_ = << >> /\ ~is_ready /\ pc # "push"))
    /\ [](~pipeline_ /\ ret.op = "next" => ret.res = Empty)

\* a control seek to 2 was forwarded to the Sample Source and came back, and
\* the clock then called next_frame
C21_Witness ==
    /\ ~pipeline_ /\ nseek_started = 1 /\ ctl_pc = "idle" /\ seek_ = NoSeek
    /\ seek_pos = 2 /\ pc = "top"
    /\ ret.op = "next" /\ ret.res = Empty /\ latency_ = MaxLatency

\* ----------------------------------------------------------- GstInput::abort
\* the owner of the Sample Source calls abort(): abort_request_ = true, the
\* graph goes to NULL if the handle is present, both queues are drained
InputAbortCall ==
    /\ naborts < MaxAborts
    /\ naborts' = naborts + 1
    /\ abort_request_' = TRUE
    /\ gstate' = IF HandleLive(pipeline_) THEN "null" ELSE gstate
    /\ video_buffer_' = << >> /\ audio_buffer_' = << >>
    /\ UNCHANGED << consumer_vars, pipeline_, graph_id, rebus, mutex_holder, lock_pc, life_vars, apos, input_loop_, mon_pc,
                    seek_flush, seekable, issued, flow, graph_vars, eof_,
                    start_, duration_, seek_, loop_, frame_count_, frame_flush_,
                    frame_time_, frame_duration_, frame_, buffer_, buffer_eof_,
                    buffer_capacity_, latency_, input_duration_, field_count, pc,
                    frame, seek_pos, ctl_pc, clock_vars, nseek_started >>

\* a lone Sample Source, with or without looping, that its owner aborts
InitAbort ==
    /\ ProducerIdle({MaxSeekMedia}, {0}, {Int64Max}, {FALSE}, {2}, {1})
    /\ InputIdle({"nullopt", "true"}, {TRUE})
    /\ ConsumerIdle(FALSE)

NextAbort ==
    \/ NewVideoSample(MaxSeekVideo) \/ NewAudioSample(MaxSeekAudio)
    \/ PostEos \/ MonitorEos \/ MonitorExit
    \/ InputTryPop
    \/ InputAbortCall

\* the monitor thread keeps running: its bus poll times out after 100 ms
SpecAbort == InitAbort /\ [][NextAbort]_vars /\ WF_vars(MonitorExit)

\* the step is a call of GstInput::abort
AbortCall == naborts' = naborts + 1

\* C22: after an abort both sample queues are empty, the abort flag is set and
\* the graph is stopped, and stay so; a further abort changes nothing of the
\* Sample Source; and after an abort the monitor thread leaves its loop
C22_AbortIdempotent ==
    /\ [](abort_request_ => (/\ video_buffer_ = << >> /\ audio_buffer_ = << >>
                             /\ gstate = "null"))
    /\ [][ AbortCall => abort_request_' ]_vars
    /\ [][ (AbortCall /\ abort_request_)
             => UNCHANGED << graph_vars, video_buffer_, eof_, input_vars,
                             pipeline_, gstate >> ]_vars
    /\ (abort_request_ ~> (mon_pc = "exited"))

\* the Sample Source was aborted twice after it had queued video and audio,
\* and its monitor thread has ended
C22_Witness ==
    /\ naborts = 2 /\ ndeliv > 0 /\ apos > 0
    /\ video_buffer_ = << >> /\ audio_buffer_ = << >>
    /\ mon_pc = "exited"

\* --------------------------------------------- references of queued samples
\* the video callback found the queue full and rejected its sample
VideoRejected == VideoCallback /\ video_buffer_' = video_buffer_

\* references left on a rejected sample: the callback releases one
RejectedRefs == Unref(CallbackRefs)

\* the step drains the video queue: the flush of a seek (by the owner or by
\* the looping monitor thread), an abort or the destructor
SourceFlush ==
    /\ video_buffer_ # << >> /\ video_buffer_' = << >>
    /\ \/ pc = "in_flush" /\ pc' = "in_gseek"
       \/ bus' # bus
       \/ naborts' # naborts
       \/ pdtor_pc' # pdtor_pc

\* references left on a sample the drain loop took from the queue: it
\* releases one
FlushedRefs(sample) == Unref(sample.refs)

\* C23: a sample the callback rejects because the queue is full, and every
\* sample a seek, an abort or the destructor drains from the queue, ends with
\* no outstanding reference
C23_ReferenceBalance ==
    [][ /\ VideoRejected => RejectedRefs = 0
        /\ SourceFlush =>
             \A i \in 1..Len(video_buffer_) : FlushedRefs(video_buffer_[i]) = 0 ]_vars

\* ------------------------------------------- references of buffered frames
SkipReleases == 0              \* frame = Frame{} releases nothing
PopReleases  == 1              \* next_frame: gst_sample_unref(buffer_[0].video)

\* GstProducer::Impl::seek: buffer_.clear()
ClearBuffer(buf) == << >>

\* GstProducer::Impl::seek: for (auto& frame : buffer_) releases the samples of
\* the frames it visits
ReleaseLoopVisits(buf) == Len(buf)

\* frames whose samples a control seek releases: the loop runs on the buffer
\* that was cleared before it
SeekReleases(buf) == ReleaseLoopVisits(ClearBuffer(buf))

\* the step is the control seek clearing the playout buffer
ClearStep == ctl_pc = "clear" /\ ctl_pc' = "idle"

\* the step is the scheduler dropping its frame because a seek is pending
SkipStep == pc = "push" /\ pc' = "top" /\ buffer_' = buffer_

\* C24: the sample of every frame a control seek clears from the playout
\* buffer is released, the sample of a frame whose push is skipped is released
\* once, a frame next_frame pops has its sample released once, and no frame is
\* left in the buffer when the producer is destroyed
C24_FramesReleasedOnce ==
    /\ [][ ClearStep => SeekReleases(buffer_) = Len(buffer_) ]_vars
    /\ [][ SkipStep => SkipReleases = 1 ]_vars
    /\ [][ (NextFrameCall /\ ret'.res.kind = "frame") => PopReleases = 1 ]_vars
    /\ [](pdtor_pc = "done" => buffer_ = << >>)

\* ------------------------------------------------------------- clip start
StartTimes == {0, 2}           \* arguments of GstProducer::start

\* GstProducer::Impl::start(start): start_ = start
SetStart ==
    /\ \E time \in StartTimes : start_' = time
    /\ UNCHANGED << consumer_vars, ext_vars, input_vars, life_vars, graph_vars,
                    video_buffer_, eof_, duration_, seek_, loop_, frame_count_,
                    frame_flush_, frame_time_, frame_duration_, frame_, buffer_,
                    buffer_eof_, buffer_capacity_, latency_, input_duration_,
                    field_count, pc, frame, seek_pos, ctl_pc, clock_vars,
                    nseek_started >>

\* a clip is played while the control thread moves its start
NextStart ==
    \/ NewVideoSample(MaxClipDeliver) \/ PostEos \/ MonitorEos
    \/ RunTop \/ InputSeekFlush \/ InputSeekGraph \/ InputSeekDone
    \/ RunPop \/ RunPush
    \/ NextFrame \/ PrevFrame
    \/ SetStart

SpecStart == InitClip /\ [][NextStart]_vars

\* GstProducer::Impl::time
time == frame_time_

\* C25: when the last call of the clock was a next_frame that returned a real
\* frame and no seek flushed the playout since, time() >= start()
C25_TimeAtLeastStart ==
    (RealFrame /\ ~frame_flush_) => time >= start_

\* ------------------------------------------------------------------ is_ready
\* C26: is_ready() is true exactly when the playout buffer holds a frame or a
\* current frame is held; it is false before the scheduler has converted its
\* first frame; and once a current frame is held it stays true over every
\* step, control seeks and buffer clears included
C26_IsReady ==
    /\ [](is_ready <=> (Len(buffer_) >= 1 \/ frame_.valid))
    /\ [](frame_count_ = 0 => ~is_ready)
    /\ [][ frame_.valid => is_ready' ]_vars

\* a current frame is held, a control seek has cleared the playout buffer and
\* the scheduler has flushed: is_ready is still true
C26_Witness ==
    /\ is_ready /\ frame_.valid /\ buffer_ = << >>
    /\ nseek_started = 1 /\ ctl_pc = "idle" /\ seek_ = NoSeek /\ frame_flush_
    /\ issued = ToNs(2)

\* ----------------------------------------------------------- lock discipline
\* everything but the locks and the threads' positions with respect to them
data_vars == << consumer_vars, pipeline_, graph_id, rebus, gstate, naborts, input_vars, life_vars,
                graph_vars, video_buffer_, eof_, start_, duration_, seek_, loop_,
                frame_count_, frame_flush_, frame_time_, frame_duration_, frame_,
                buffer_, buffer_eof_, buffer_capacity_, latency_, input_duration_,
                field_count, pc, frame, seek_pos, ctl_pc, clock_vars,
                nseek_started >>

\* thread t takes the lock l once it is free and goes to position to
Acquire(t, l, to) ==
    /\ mutex_holder[l] = "nobody"
    /\ mutex_holder' = [mutex_holder EXCEPT ![l] = t]
    /\ lock_pc' = [lock_pc EXCEPT ![t] = to]
    /\ UNCHANGED data_vars

\* thread t gives up the lock l and goes to position to
Release(t, l, to) ==
    /\ mutex_holder[l] = t
    /\ mutex_holder' = [mutex_holder EXCEPT ![l] = "nobody"]
    /\ lock_pc' = [lock_pc EXCEPT ![t] = to]
    /\ UNCHANGED data_vars

\* thread t goes to position to without touching a lock
Move(t, to) ==
    /\ lock_pc' = [lock_pc EXCEPT ![t] = to]
    /\ UNCHANGED << data_vars, mutex_holder >>

\* run(): a seek was requested or the clip loops: input_.seek drains the queues
SchedSeek ==
    /\ lock_pc["scheduler"] = "top"
    /\ Acquire("scheduler", "sample_source", "seek_drain")
SchedSeekDrained ==
    /\ lock_pc["scheduler"] = "seek_drain"
    /\ Release("scheduler", "sample_source", "set_flush")
\* run(): frame_flush_ = true
SchedSetFlush ==
    /\ lock_pc["scheduler"] = "set_flush"
    /\ Move("scheduler", "top")
\* run(): input_.try_pop_video
SchedPop ==
    /\ lock_pc["scheduler"] = "top"
    /\ Acquire("scheduler", "sample_source", "pop")
SchedPopped ==
    /\ lock_pc["scheduler"] = "pop"
    /\ Release("scheduler", "sample_source", "convert")
SchedPopFailed ==
    /\ lock_pc["scheduler"] = "pop"
    /\ Release("scheduler", "sample_source", "top")
\* run(): unique_lock buffer_lock(buffer_mutex_); buffer_cond_.wait gives the
\* lock up while it waits; the lock is released at the end of the block
SchedLock ==
    /\ lock_pc["scheduler"] = "convert"
    /\ Acquire("scheduler", "buffer_mutex_", "push_locked")
SchedWait ==
    /\ lock_pc["scheduler"] = "push_locked"
    /\ Release("scheduler", "buffer_mutex_", "waiting")
SchedWake ==
    /\ lock_pc["scheduler"] = "waiting"
    /\ Acquire("scheduler", "buffer_mutex_", "push_locked")
SchedPushed ==
    /\ lock_pc["scheduler"] = "push_locked"
    /\ Release("scheduler", "buffer_mutex_", "top")

\* next_frame: lock_guard lock(buffer_mutex_) for the whole body
NextLock ==
    /\ lock_pc["clock"] = "idle"
    /\ Acquire("clock", "buffer_mutex_", "next_locked")
\* next_frame returns: the guard is destroyed, then the scope exit runs
NextReturn ==
    /\ lock_pc["clock"] = "next_locked"
    /\ mutex_holder' =
           IF HeldIntoUpdate("buffer_mutex_") THEN mutex_holder
           ELSE [mutex_holder EXCEPT !["buffer_mutex_"] = "nobody"]
    /\ lock_pc' = [lock_pc EXCEPT !["clock"] = "update"]
    /\ UNCHANGED data_vars
\* prev_frame: field != b and (frame_flush_ || !frame_) are read without a lock
PrevTest ==
    /\ lock_pc["clock"] = "idle"
    /\ Move("clock", "prev_test")
PrevSkip ==
    /\ lock_pc["clock"] = "prev_test"
    /\ Move("clock", "update")
PrevLock ==
    /\ lock_pc["clock"] = "prev_test"
    /\ Acquire("clock", "buffer_mutex_", "prev_locked")
PrevUnlock ==
    /\ lock_pc["clock"] = "prev_locked"
    /\ Release("clock", "buffer_mutex_", "update")

\* update_state: lock_guard lock(state_mutex_), run by the scope exit of t's call
UpdateLock(t) ==
    /\ lock_pc[t] = "update"
    /\ Acquire(t, "state_mutex_", "update_locked")
\* the call of t returns: whatever it still holds is released
UpdateUnlock(t) ==
    /\ lock_pc[t] = "update_locked"
    /\ mutex_holder' = [l \in Locks |-> IF mutex_holder[l] = t THEN "nobody"
                                        ELSE mutex_holder[l]]
    /\ lock_pc' = [lock_pc EXCEPT ![t] = "idle"]
    /\ UNCHANGED data_vars

\* Impl::seek: seek_ = time, then buffer_.clear() under buffer_mutex_
CtlSeekLock ==
    /\ lock_pc["control"] = "idle"
    /\ Acquire("control", "buffer_mutex_", "seek_locked")
CtlSeekUnlock ==
    /\ lock_pc["control"] = "seek_locked"
    /\ Release("control", "buffer_mutex_", "update")
\* Impl::is_ready
ReadyLock ==
    /\ lock_pc["control"] = "idle"
    /\ Acquire("control", "buffer_mutex_", "ready_locked")
ReadyUnlock ==
    /\ lock_pc["control"] = "ready_locked"
    /\ Release("control", "buffer_mutex_", "idle")
\* GstProducer::state
StateLock ==
    /\ lock_pc["control"] = "idle"
    /\ Acquire("control", "state_mutex_", "state_locked")
StateUnlock ==
    /\ lock_pc["control"] = "state_locked"
    /\ Release("control", "state_mutex_", "idle")
\* Impl::start, Impl::loop, Impl::duration: a store, then update_state
CtlSetter ==
    /\ lock_pc["control"] = "idle"
    /\ Move("control", "update")

\* new_video_sample: video_buffer_.try_push
CallbackLock ==
    /\ lock_pc["graph"] = "idle"
    /\ Acquire("graph", "sample_source", "pushing")
CallbackUnlock ==
    /\ lock_pc["graph"] = "pushing"
    /\ Release("graph", "sample_source", "idle")

NextLocks ==
    \/ SchedSeek \/ SchedSeekDrained \/ SchedSetFlush
    \/ SchedPop \/ SchedPopped \/ SchedPopFailed
    \/ SchedLock \/ SchedWait \/ SchedWake \/ SchedPushed
    \/ NextLock \/ NextReturn
    \/ PrevTest \/ PrevSkip \/ PrevLock \/ PrevUnlock
    \/ UpdateLock("clock") \/ UpdateUnlock("clock")
    \/ UpdateLock("control") \/ UpdateUnlock("control")
    \/ CtlSeekLock \/ CtlSeekUnlock \/ ReadyLock \/ ReadyUnlock
    \/ StateLock \/ StateUnlock \/ CtlSetter
    \/ CallbackLock \/ CallbackUnlock

SpecLocks == Init /\ [][NextLocks]_vars

\* the locks a thread holds
HeldBy(t) == {l \in Locks : mutex_holder[l] = t}

\* C27: no thread ever holds two locks at once: the scheduler holds nothing of
\* the Sample Source while it holds the playout buffer lock, and whoever takes
\* the state lock in update_state has released the playout buffer lock
C27_OneLockAtATime ==
    /\ \A t \in Threads : Cardinality(HeldBy(t)) <= 1
    /\ lock_pc["scheduler"] \in {"push_locked", "waiting"}
           => mutex_holder["sample_source"] # "scheduler"
    /\ \A t \in Threads : lock_pc[t] = "update_locked" => HeldBy(t) = {"state_mutex_"}

\* the three locks are held at once, each by a different thread: the clock is
\* in update_state after next_frame, the scheduler pushes, the callback queues
C27_Witness ==
    /\ mutex_holder["state_mutex_"] = "clock"
    /\ mutex_holder["buffer_mutex_"] = "scheduler"
    /\ mutex_holder["sample_source"] = "graph"
    /\ lock_pc["control"] = "update"

\* C28: the scheduler writes frame_flush_ only while it holds the playout
\* buffer lock, the clock thread reads and writes it only while it holds that
\* lock, and so the scheduler never sets the flag while the clock thread is
\* reading or clearing it
C28_FlushFlagUnderLock ==
    /\ lock_pc["scheduler"] = "set_flush" => mutex_holder["buffer_mutex_"] = "scheduler"
    /\ lock_pc["clock"] = "prev_test" => mutex_holder["buffer_mutex_"] = "clock"
    /\ ~(/\ lock_pc["scheduler"] = "set_flush"
         /\ lock_pc["clock"] \in {"next_locked", "prev_test", "prev_locked"})

\* --------------------------------------------------------------- Encode Pump
MaxPumpSends == 5

\* the frame rates of the channels the consumer is attached to
FrameRates == {50, 60}

\* process_frames: make_gst_sample returned no sample or threw: nothing is
\* stamped or pushed and frame_count is left alone
PumpSkip ==
    /\ pump_pc = "push"
    /\ pump_pc' = IF aborting_ THEN "eos" ELSE "pop"
    /\ UNCHANGED << producer_vars, format_desc_fps, realtime_, frame_buffer_,
                    is_running_, aborting_, exception_, pump_frame, pump_count,
                    encoded, eos_sent, dtor_pc, send_result, nsent, dropped,
                    since_pop, drops_since_pop, first_since_pop, last_sent >>

\* the production clock sends a new frame or an empty one
SendPump ==
    /\ nsent < MaxPumpSends
    /\ \E empty \in BOOLEAN : send(IF empty THEN EmptyConstFrame ELSE nsent + 1)

NextPump ==
    \/ Initialize(FrameRates)
    \/ PumpStart \/ PumpPop \/ PumpPush \/ PumpSkip \/ PumpEos
    \/ SendPump
    \/ Destroy \/ DestroyPush \/ DestroyJoin

SpecPump == InitConsumer /\ [][NextPump]_vars

\* C29: the timestamps of the frames pushed into the encode graph are strictly
\* increasing in push order, and the k-th frame pushed (k from 0) carries the
\* time of frame index k at the frame rate of the format, whatever frame of
\* the source it is and however many frames were dropped or skipped before it.
C29_TimestampsFromCounter ==
    \A i \in 1..Len(encoded) :
        /\ encoded[i][3] = BufferPts(i - 1, format_desc_fps)
        /\ i > 1 => encoded[i][3] > encoded[i - 1][3]

\* three frames were pushed at 60 fps after drops: the third one pushed is not
\* the third one sent, and its timestamp is that of frame index 2
C29_Witness ==
    /\ format_desc_fps = 60 /\ Len(encoded) = 3
    /\ dropped > 0 /\ encoded[3][1] > 3
    /\ encoded[3][3] = 33333333

\* the pump is inside its loop
PumpLoop == pump_pc \in {"pop", "push"}

\* C30: when the pump leaves its loop (on an empty frame or on the abort flag)
\* it signals end-of-stream exactly once, after the last frame it pushed, it
\* pushes nothing afterwards, and it clears the running flag, so that a later
\* send reports not-running.
C30_ExitSignalsEosOnce ==
    /\ [][(PumpLoop /\ ~PumpLoop') => pump_pc' = "eos"]_vars
    /\ [][(pump_pc = "eos" /\ pump_pc' # "eos") =>
              /\ eos_sent' = eos_sent + 1 /\ encoded' = encoded
              /\ ~is_running_' /\ pump_pc' = "exited"]_vars
    /\ [](pump_pc = "eos" => eos_sent = 0)
    /\ [](eos_sent <= 1)
    /\ [][eos_sent = 1 => encoded' = encoded]_vars
    /\ [][(SendCall /\ eos_sent = 1) => send_result' = "not_running"]_vars

\* the pump pushed two frames, left its loop on an empty frame and signalled
\* end-of-stream; the one frame sent since then was reported as not running
C30_Witness ==
    /\ pump_pc = "exited" /\ eos_sent = 1 /\ Len(encoded) >= 2
    /\ dtor_pc = "none" /\ pump_frame = EmptyConstFrame
    /\ since_pop = 1 /\ last_sent # EmptyConstFrame
    /\ send_result = "not_running"

\* ------------------------------------------------------------- loop restart
\* the scheduler found end-of-stream or clip end on a looping clip and went
\* back to the top of its loop without seeking
LoopIdled == loop_ /\ buffer_eof_ /\ pc = "top" /\ issued = NoSeekIssued

\* C31: at end-of-stream or clip end with looping enabled, the scheduler seeks
\* back to start if and only if at least 2 frames have been produced; with
\* fewer it idles without seeking.
C31_LoopSeekFromTwoFrames ==
    /\ pc = "in_flush" => frame_count_ >= 2
    /\ LoopIdled => frame_count_ < 2

\* ----------------------------------------------------------------- underflow
\* C32: when next_frame finds the playout buffer empty and end-of-clip is not
\* flagged, it returns the empty frame, adds exactly one to the latency
\* counter, raises the underflow tag, and leaves the current frame, its
\* timestamp and duration, the flush-pending flag and the buffer unchanged.
C32_UnderflowOnEmptyBuffer ==
    [][ (NextFrameCall /\ buffer_ = << >> /\ ~buffer_eof_) =>
            /\ ret'.res = Empty /\ ret'.tag = "underflow"
            /\ latency_ < MaxLatency => latency_' = latency_ + 1
            /\ UNCHANGED << frame_, frame_time_, frame_duration_, frame_flush_,
                            buffer_ >> ]_vars

\* next_frame underflowed on an empty buffer while a frame delivered before
\* is still the current one
C32_Witness ==
    /\ ret.op = "next" /\ ret.res = Empty /\ ret.tag = "underflow"
    /\ buffer_ = << >> /\ ~buffer_eof_ /\ ~eof_
    /\ frame_.valid /\ ~frame_flush_ /\ frame_time_ = frame_.pts
    /\ latency_ = 0

\* ---------------------------------------------------------------- delivery
\* the sequence numbers of a buffer increase strictly from head to tail
Increasing(buf) ==
    \A i \in 1..Len(buf) : \A j \in 1..Len(buf) :
        i < j => buf[i].frame_count < buf[j].frame_count

\* C33: frames are delivered in FIFO order and at most once: a successful
\* next_frame removes exactly the head of the playout buffer, makes it the
\* current frame with its timestamp and duration, clears the flush-pending
\* flag and leaves the scheduler's wait for room satisfied; the sequence
\* numbers of the frames successive successful calls return increase
\* strictly, and so do the sequence numbers in the buffer from head to tail.
C33_FifoAtMostOnce ==
    /\ [][ (NextFrameCall /\ ret'.res.kind = "frame") =>
               /\ buffer_ # << >> /\ ret'.res.f = Head(buffer_)
               /\ buffer_' = Tail(buffer_)
               /\ frame_' = Head(buffer_)
               /\ frame_time_' = Head(buffer_).pts
               /\ frame_duration_' = Head(buffer_).duration
               /\ ~frame_flush_'
               /\ BufferHasRoom(buffer_', buffer_capacity_)
               /\ ret'.res.f.frame_count > ret.last ]_vars
    /\ [](Increasing(buffer_))

\* the second frame was just delivered, after the first, and the third one
\* waits in the buffer
C33_Witness ==
    /\ ret.op = "next" /\ ret.res.kind = "frame" /\ ret.res.f.frame_count = 1
    /\ ret.last = 1 /\ frame_.frame_count = 1 /\ ~frame_flush_
    /\ Len(buffer_) = 1 /\ buffer_[1].frame_count = 2

\* ----------------------------------------------------------------- recovery
\* if (latency_ != -1): the delivery logs " Latency: " << latency_
Logs(latency) == latency # RecoveredLatency

\* the step is a call of next_frame that delivers a frame
Delivery == NextFrameCall /\ ret'.res.kind = "frame"

\* C34: recovery from underflow is logged exactly once per episode: the first
\* delivery after one or more underflow ticks logs the latency and resets the
\* counter to -1, a delivery that follows a delivery logs nothing, and the
\* value logged is the number of underflow ticks since the previous delivery
\* (at least 1 when the call before the delivery was an underflow tick).
C34_RecoveryLoggedOnce ==
    /\ [][ Delivery => latency_' = RecoveredLatency ]_vars
    /\ [][ (Delivery /\ ret.op = "next" /\ ret.res.kind = "frame") =>
               ~Logs(latency_) ]_vars
    /\ [][ (Delivery /\ ret.tag = "underflow") =>
               Logs(latency_) /\ latency_ >= 1 ]_vars

\* --------------------------------------------------------------- prev_frame
\* C35: prev_frame never removes a frame from the playout buffer and never
\* unblocks the scheduler: the buffer is the same before and after every call;
\* on a first-field call with a flush pending or no frame held and a non-empty
\* buffer it copies the buffer head into the current-frame slot and clears the
\* flush-pending flag; with an empty buffer it leaves the current frame and
\* the flag unchanged.
C35_PrevFrameKeepsBuffer ==
    [][ PrevFrameCall =>
            /\ buffer_' = buffer_
            /\ BufferHasRoom(buffer_', buffer_capacity_)
                   <=> BufferHasRoom(buffer_, buffer_capacity_)
            /\ pc' = pc
            /\ (ret'.field # "b" /\ (frame_flush_ \/ ~frame_.valid) /\ buffer_ # << >>) =>
                   /\ frame_' = Head(buffer_) /\ ~frame_flush_'
                   /\ ret'.res = Still(Head(buffer_))
            /\ buffer_ = << >> => UNCHANGED << frame_, frame_flush_ >> ]_vars

\* after a delivery and a seek, prev_frame on the first field took the head
\* of the refilled buffer as the current frame and left it in the buffer
C35_Witness ==
    /\ ret.op = "prev" /\ ret.field = "a" /\ ret.last >= 0
    /\ buffer_ # << >> /\ ret.res = Still(Head(buffer_))
    /\ Head(buffer_).gen = 1 /\ frame_ = Head(buffer_) /\ ~frame_flush_

\* ---------------------------------------------------------------- look-ahead
\* a producer whose playout buffer holds the whole look-ahead, under a control
\* seek
InitFlush ==
    ProducerInit({MaxFlushMedia}, {0}, {Int64Max}, {FALSE}, {FlushLookahead}, {1})

NextFlush ==
    \/ NewVideoSample(MaxFlushDeliver) \/ PostEos \/ MonitorEos
    \/ RunTop \/ InputSeekFlush \/ InputSeekGraph \/ InputSeekDone
    \/ RunPop \/ RunPush
    \/ NextFrame \/ PrevFrame
    \/ SeekStore \/ SeekClear

SpecFlush == InitFlush /\ [][NextFlush]_vars

SeekReturning == pc = "in_eofclr"

\* C37: once GstInput::seek has returned, the end-of-stream flag is set only
\* if the graph reached end-of-stream after that seek: an end-of-stream the
\* graph posted before the seek does not set the flag afterwards.
C37_NoStaleEndOfStream ==
    (eof_ /\ ~SeekReturning) => eos_posted

\* ------------------------------------------------- control seeks and pushes
\* the step pushes a frame into the playout buffer
PushStep == Len(buffer_') > Len(buffer_)

\* C38: every control seek reaches the Sample Source, whatever its time: a
\* frame pushed after a control seek cleared the playout buffer is pushed
\* only after GstInput::seek issued a seek to the graph, and it was decoded
\* after that control seek, not from the stream before it.
C38_SeekReachesSource ==
    [][ (PushStep /\ SeeksDone >= 1) =>
            /\ issued # NoSeekIssued
            /\ buffer_'[Len(buffer_')].gen >= SeeksDone ]_vars

\* ------------------------------------------------------ life of the pump
\* the pump has left the loop of process_frames
PumpLeftLoop == pump_pc = "eos" \/ (pump_pc = "exited" /\ eos_sent > 0)

\* C39: the Encode Pump keeps running until the consumer is destroyed: no
\* sequence of send calls, a send of an empty frame included, makes the pump
\* leave its loop, so no frame accepted into the Capture Queue is left there
\* by a pump that stopped before the destruction.
C39_PumpRunsUntilDestroyed ==
    PumpLeftLoop => aborting_

\* ------------------------------------------------------- GstInput::reset
MaxResets     == 1
MaxResetMedia == 2
MaxResetVideo == 4
MaxResetAudio == 2

\* GstInput::reset under mutex_: the graph goes to NULL and is dropped, both
\* queues are drained, eof_ is cleared and initialize_pipeline(uri_) builds a
\* new graph and leaves it PAUSED, or leaves no graph if that fails. The
\* monitor thread is not restarted: it keeps the bus it obtained from the
\* constructor's graph, whose pending messages the NULL state may or may not
\* have flushed.
InputReset ==
    /\ graph_id < MaxResets
    /\ HandleLive(pipeline_)
    /\ \E created \in BOOLEAN :
          /\ pipeline_' = created
          /\ gstate' = IF created THEN "paused" ELSE "null"
    /\ graph_id' = graph_id + 1
    /\ rebus' = << >>
    /\ bus' \in {bus, << >>}
    /\ video_buffer_' = << >> /\ audio_buffer_' = << >>
    /\ eof_' = FALSE
    /\ gpos' = 0 /\ apos' = 0 /\ eos_posted' = FALSE
    /\ UNCHANGED << consumer_vars, naborts, mutex_holder, lock_pc, life_vars,
                    input_loop_, abort_request_, mon_pc, seek_flush, seekable,
                    issued, flow, medialen, ndeliv, start_, duration_, seek_,
                    loop_, frame_count_, frame_flush_, frame_time_,
                    frame_duration_, frame_, buffer_, buffer_eof_,
                    buffer_capacity_, latency_, input_duration_, field_count, pc,
                    frame, seek_pos, ctl_pc, clock_vars, nseek_started >>

\* a recreated graph reaches the end of the medium and posts end-of-stream on
\* its own bus
PostEosRecreated ==
    /\ Streaming(gstate) /\ graph_id # FirstGraph
    /\ gpos = medialen /\ ~eos_posted
    /\ rebus' = Append(rebus, "eos") /\ eos_posted' = TRUE
    /\ UNCHANGED << consumer_vars, pipeline_, graph_id, gstate, naborts,
                    mutex_holder, lock_pc, input_vars, life_vars, medialen, gpos,
                    bus, ndeliv, video_buffer_, eof_, start_, duration_, seek_,
                    loop_, frame_count_, frame_flush_, frame_time_,
                    frame_duration_, frame_, buffer_, buffer_eof_,
                    buffer_capacity_, latency_, input_duration_, field_count, pc,
                    frame, seek_pos, ctl_pc, clock_vars, nseek_started >>

\* the owner resets and restarts the Sample Source while the graph decodes and
\* the monitor thread polls
InitReset ==
    /\ ProducerIdle({MaxResetMedia}, {0}, {Int64Max}, {FALSE}, {2}, {1})
    /\ InputIdle({"nullopt"}, {TRUE})
    /\ ConsumerIdle(FALSE)

NextReset ==
    \/ NewVideoSample(MaxResetVideo) \/ NewAudioSample(MaxResetAudio)
    \/ PostEos \/ PostEosRecreated
    \/ MonitorEos
    \/ InputTryPop
    \/ InputReset \/ InputStart

SpecReset == InitReset /\ [][NextReset]_vars

\* the monitor thread polls its bus for as long as it runs
SpecResetFair == SpecReset /\ WF_vars(MonitorEos)

\* the step is a GstInput::reset
ResetStep == graph_id' # graph_id

\* C40: after GstInput::reset the Sample Source works on the recreated graph:
\* the reset leaves both queues empty and the end-of-stream flag false, and an
\* end-of-stream of the recreated graph is observed by the monitor thread,
\* which then sets the end-of-stream flag.
C40_MonitorFollowsReset ==
    /\ [][ ResetStep => /\ video_buffer_' = << >> /\ audio_buffer_' = << >>
                        /\ ~eof_' ]_vars
    /\ (graph_id # FirstGraph /\ eos_posted) ~> eof_

====
